---------------------------- MODULE Spec2Model ----------------------------
(***************************************************************************)
(* OpenSTX market-data ingestion service.                                  *)
(*                                                                         *)
(* The module models                                                       *)
(*   - the realtime aggregator (RealTimeData.cpp): the broker callbacks,   *)
(*     the minute rollover of the processData thread and the persistence   *)
(*     queue drained by the writer thread;                                 *)
(*   - the daily backfill (DailyDataFetcher.cpp): the indicator kernel,    *)
(*     storeDailyData, the daily priority queue and its writer, and the    *)
(*     per-symbol, per-day driver.                                         *)
(*                                                                         *)
(* Doubles and IB Decimals are modelled by integers; a quotient is kept    *)
(* as a reduced fraction <<n, d>>.                                         *)
(***************************************************************************)
EXTENDS Integers, Sequences, FiniteSets, TLC

(***************************************************************************)
(* Bounds of the model.                                                    *)
(***************************************************************************)
MaxTicks == 1
MaxL2Entries == 1
MaxMinutes == 2
MaxL1Ticks == 2
MaxL1Minutes == 1
MaxRingMinutes == 28
MaxBookEntries == 2
MaxL2Minutes == 1
MaxBars == 3
MaxFailures == 2
MaxDays == 2
MaxPasses == 2
MaxDailyFailures == 1
MaxKernelDay == 37
MaxBacklog == 1
MaxCalendarDay == 366
MaxResumeDays == 1
MaxRequestDay == 2
MaxTimeouts == 3
MaxBackoffs == 32
MaxHours == 96
MaxRaceEntries == 2
MaxRaceMinutes == 1
MaxScanDay == 10227

(***************************************************************************)
(* Program constants.                                                      *)
(***************************************************************************)
NumBuckets == 20
MAX_HISTORY_SIZE == 26

(***************************************************************************)
(* Generic helpers.                                                        *)
(***************************************************************************)
Abs(x) == IF x < 0 THEN -x ELSE x

RECURSIVE Gcd(_, _)
Gcd(a, b) == IF b = 0 THEN a ELSE Gcd(b, a % b)

\* the quotient n/d of two numbers, d # 0, as a reduced fraction
Frac(n, d) ==
    LET g == Gcd(Abs(n), Abs(d))
        s == IF d < 0 THEN -1 ELSE 1
    IN  <<(s * n) \div g, (s * d) \div g>>

RECURSIVE SumSeq(_)
SumSeq(s) == IF s = <<>> THEN 0 ELSE Head(s) + SumSeq(Tail(s))

RECURSIVE MaxSeq(_)
MaxSeq(s) ==
    IF Len(s) = 1 THEN s[1]
    ELSE LET m == MaxSeq(Tail(s)) IN IF Head(s) >= m THEN Head(s) ELSE m

RECURSIVE MinSeq(_)
MinSeq(s) ==
    IF Len(s) = 1 THEN s[1]
    ELSE LET m == MinSeq(Tail(s)) IN IF Head(s) <= m THEN Head(s) ELSE m

RECURSIVE SelectSeqBy(_, _)
\* the subsequence of the entries of s whose deleted-flag equals want
SelectSeqBy(s, want) ==
    IF s = <<>> THEN <<>>
    ELSE IF (Head(s).status = "Deleted") = want
         THEN <<Head(s)>> \o SelectSeqBy(Tail(s), want)
         ELSE SelectSeqBy(Tail(s), want)

RECURSIVE FlattenMap(_, _)
\* all entries of a position -> vector map, position by position
FlattenMap(m, keys) ==
    IF keys = {} THEN <<>>
    ELSE LET k == CHOOSE x \in keys : \A y \in keys : x <= y
         IN  m[k] \o FlattenMap(m, keys \ {k})

Entries(m) == FlattenMap(m, DOMAIN m)

\* std::map::operator[] on a missing key yields a default-constructed value
At(m, k) == IF k \in DOMAIN m THEN m[k] ELSE <<>>

Put(m, k, v) == [q \in (DOMAIN m) \cup {k} |-> IF q = k THEN v ELSE m[q]]

EmptyMap == [q \in {} |-> <<>>]

--------------------------------------------------------------------------
(***************************************************************************)
(* State of RealTimeData.                                                  *)
(***************************************************************************)
VARIABLES
    running,                \* std::atomic<bool> running
    l1Prices,               \* live L1 price vector
    l1Volumes,              \* live L1 volume vector
    rawL2Data,              \* live L2 book: position -> vector of entries
    l1PricesBuffer,         \* frozen L1 price vector
    l1VolumesBuffer,        \* frozen L1 volume vector
    rawL2DataBuffer,        \* frozen L2 staging map
    historicalClosePrices,  \* close ring
    historicalVolumes,      \* volume ring
    dataQueue,              \* std::queue of combined bars
    realtimeRows,           \* rows of realtime_data in insertion order
    shm,                    \* content of the shared-memory region
    ppc,                    \* position of the processData thread
    wpc,                    \* position of the writer thread
    l1Data, l2Data, features, \* locals of the last aggregateMinuteData
    minute,                 \* number of minute boundaries seen
    minuteL1P, minuteL1V,   \* history: L1 ticks taken by the last swap
    minuteL2,               \* history: non-deleted book entries at the partition
    outcome,                \* history: how the last rollover ended
    accepted,               \* history: bars accepted by addToQueue, in order
    failures                \* history: number of failed inserts

VARIABLES
    dailyRunning,           \* DailyDataFetcher: std::atomic<bool> running
    indicators,             \* per symbol: closingPrices, emaValues, emaDataPoints,
                            \* gains, losses, lastClose, cumulativePriceVolume,
                            \* cumulativeVolume
    dailyQueue,             \* DailyDataFetcher: priority queue dataQueue
    dailyRows,              \* table daily_data: primary key -> row
    dpc,                    \* position of the thread in fetchAndProcessDailyData
    dwpc,                   \* position of the daily writer thread
    item,                   \* the writer's local DataItem, <<>> when it has none
    incremental,            \* argument of the running fetchAndProcessDailyData
    symIdx,                 \* index of the symbol being fetched
    day,                    \* trading day being requested
    passes,                 \* history: completed calls of fetchAndProcessDailyData
    observed,               \* history: closes given to storeDailyData, per symbol
    dailyAccepted,          \* history: bars accepted by the daily addToQueue
    dailyWritten,           \* history: bars whose upsert returned true
    dailyFailures,          \* history: number of failed upserts
    rowsAfterFirst          \* history: daily_data when the first call returned

VARIABLES
    client,                 \* the EClientSocket: "null", "connected", "disconnected"
    retryCount,             \* local of requestDailyData
    dataReceived,           \* flag of the condition variable cv
    historicalDataBuffer,   \* bars received and not yet stored
    inflight,               \* answers of the gateway on their way to the reader
    spc,                    \* position of a thread that called stop()
    stopAt,                 \* history: number of requests when stop() was called
    crashed,                \* history: the driver went through the released client
    requests,               \* history: reqHistoricalData calls, [symbol, day]
    succeeded               \* history: [symbol, day] whose waitForData returned true

waitVars == <<retryCount, dataReceived, historicalDataBuffer, inflight, spc,
              stopAt, crashed>>

reqVars == <<client, waitVars, requests, succeeded>>

dailyVars == <<dailyRunning, indicators, dailyQueue, dailyRows, dpc, dwpc, item,
               incremental, symIdx, day, passes, observed, dailyAccepted,
               dailyWritten, dailyFailures, rowsAfterFirst>>

rtVars == <<running, l1Prices, l1Volumes, rawL2Data, l1PricesBuffer,
            l1VolumesBuffer, rawL2DataBuffer, historicalClosePrices,
            historicalVolumes, dataQueue, realtimeRows, shm, ppc, wpc,
            l1Data, l2Data, features, minute, minuteL1P, minuteL1V, minuteL2,
            outcome, accepted, failures>>

VARIABLES
    backoffAttempt,         \* static int of handleRateLimitExceeded
    delays,                 \* history: the delaySeconds slept, in order
    closing,                \* position of the thread inside RealTimeData::stop()
    stopper,                \* the thread inside stop(): "none", "main", "reader"
    reconnecting            \* history: reconnect() has been entered

sessVars == <<backoffAttempt, delays, closing, stopper, reconnecting>>

VARIABLES
    connPc,                 \* position of the thread inside connectToIB
    connClass,              \* whose connectToIB: "daily" or "realtime"
    connMax,                \* argument maxRetries
    attempt,                \* loop variable of connectToIB
    connClient,             \* its client: "null", "connected", "disconnected"
    connReader,             \* its reader exists
    connSignal,             \* its osSignal exists
    m_nextValidId,          \* DailyDataFetcher::m_nextValidId
    connResult,             \* what connectToIB returned: "none", "true", "false"
    eConnects,              \* history: calls of eConnect in this connectToIB
    sleeps,                 \* history: sleeps of retryDelayMs in this connectToIB
    caller,                 \* the function that called this connectToIB
    readerThreads           \* reader threads started and not joined

connVars == <<connPc, connClass, connMax, attempt, connClient, connReader,
              connSignal, m_nextValidId, connResult, eConnects, sleeps,
              caller, readerThreads>>

VARIABLES
    now,                    \* main: the New York time, in hours since Friday 00:00
    rtPc,                   \* main: position of realTimeDataThread
    histPc,                 \* main: position of historicalDataThread
    wakeAt                  \* main: end of the hour historicalDataThread sleeps

supVars == <<now, rtPc, histPc, wakeAt>>

VARIABLES
    cut                     \* moveDeletedItemsToBuffer: per position, the index
                            \* of its iterator `it` and the size of the vector
                            \* when std::stable_partition returned

raceVars == <<cut>>

VARIABLES
    stopPc,                 \* per thread that calls RealTimeData::stop(): its
                            \* position in stop()
    teardowns               \* the calls of stop() that went past the test of
                            \* running, since start()

stopVars == <<stopPc, teardowns>>

\* what the threads of DailyDataFetcher leave alone, and what the data path
\* of RealTimeData leaves alone
outsideData == <<dailyVars, reqVars, sessVars, connVars, supVars, stopVars>>
outsideDaily == <<rtVars, sessVars, connVars, supVars, raceVars, stopVars>>
outsideRealTime == <<outsideData, raceVars>>

vars == <<rtVars, dailyVars, reqVars, sessVars, connVars, supVars, raceVars, stopVars>>

aggVars == <<l1Prices, l1Volumes, rawL2Data, l1PricesBuffer, l1VolumesBuffer,
             rawL2DataBuffer, historicalClosePrices, historicalVolumes, shm,
             l1Data, l2Data, features, minute, minuteL1P, minuteL1V, minuteL2,
             outcome>>

queueVars == <<dataQueue, realtimeRows, accepted, failures>>

--------------------------------------------------------------------------
(***************************************************************************)
(* JSON values of nlohmann::json, as far as the code uses them.            *)
(***************************************************************************)
JNum(x) == [type |-> "number", val |-> x]
JStr(x) == [type |-> "string", val |-> x]

\* basic_json::get<std::string>(): type_error 302 unless the value is a string
JsonGetString(j) == IF j.type = "string" THEN j.val ELSE "type_error"

\* values of the rollover's locals before the first rollover
NoL1 == [Open |-> JNum(0), High |-> JNum(0), Low |-> JNum(0),
         Close |-> JNum(0), Volume |-> JNum(0)]

NoFeatures == [WeightedAvgPrice |-> <<0, 1>>, BuySellRatio |-> <<0, 1>>,
               DepthChange |-> 0]

\* the value of a read past the end of a vector: not a number the model knows
OutOfBounds == <<0, 0>>

InitRealTime ==
    /\ running = FALSE
    /\ l1Prices = <<>> /\ l1Volumes = <<>> /\ rawL2Data = EmptyMap
    /\ l1PricesBuffer = <<>> /\ l1VolumesBuffer = <<>>
    /\ rawL2DataBuffer = EmptyMap
    /\ historicalClosePrices = <<>> /\ historicalVolumes = <<>>
    /\ dataQueue = <<>> /\ realtimeRows = <<>>
    /\ shm = [mapped |-> FALSE, data |-> <<>>]
    /\ ppc = "off" /\ wpc = "off"
    /\ l1Data = NoL1 /\ l2Data = <<>> /\ features = NoFeatures
    /\ minute = 0
    /\ minuteL1P = <<>> /\ minuteL1V = <<>> /\ minuteL2 = <<>>
    /\ outcome = "none"
    /\ accepted = <<>> /\ failures = 0

--------------------------------------------------------------------------
(***************************************************************************)
(* Broker callbacks (EWrapper).  None of them takes dataMutex.             *)
(***************************************************************************)
L2Count(m) == Len(Entries(m))

\* tickPrice with field == LAST
tickPrice(price) ==
    /\ UNCHANGED outsideRealTime
    /\ running
    /\ l1Prices' = Append(l1Prices, price)
    /\ UNCHANGED <<running, l1Volumes, rawL2Data, l1PricesBuffer,
                   l1VolumesBuffer, rawL2DataBuffer, historicalClosePrices,
                   historicalVolumes, shm, ppc, wpc, l1Data, l2Data, features,
                   minute, minuteL1P, minuteL1V, minuteL2, outcome>>
    /\ UNCHANGED queueVars

\* tickSize with field == LAST_SIZE
tickSize(size) ==
    /\ UNCHANGED outsideRealTime
    /\ running
    /\ l1Volumes' = Append(l1Volumes, size)
    /\ UNCHANGED <<running, l1Prices, rawL2Data, l1PricesBuffer,
                   l1VolumesBuffer, rawL2DataBuffer, historicalClosePrices,
                   historicalVolumes, shm, ppc, wpc, l1Data, l2Data, features,
                   minute, minuteL1P, minuteL1V, minuteL2, outcome>>
    /\ UNCHANGED queueVars

L2DataPoint(price, size, sideStr, status) ==
    [price |-> price, volume |-> size, side |-> sideStr, status |-> status]

\* the book after one updateMktDepth event
DepthUpdate(book, position, operation, side, price, size) ==
    LET sideStr  == IF side = 0 THEN "Buy" ELSE "Sell"
        points   == At(book, position)
        inserted == Put(book, position,
                        Append(points, L2DataPoint(price, size, sideStr, "Inserted")))
        n        == Len(points)
    IN  CASE operation = 0 -> inserted
          [] operation = 1 ->
                IF points # <<>>
                THEN IF points[n].status # "Deleted"
                     THEN Put(book, position,
                              [points EXCEPT ![n].price = price,
                                             ![n].volume = size,
                                             ![n].status = "Updated"])
                     ELSE inserted
                ELSE inserted
          [] operation = 2 ->
                IF points # <<>>
                THEN Put(book, position, [points EXCEPT ![n].status = "Deleted"])
                ELSE Put(book, position, <<>>)
          [] OTHER -> book

updateMktDepth(position, operation, side, price, size) ==
    /\ UNCHANGED outsideRealTime
    /\ running
    /\ rawL2Data' = DepthUpdate(rawL2Data, position, operation, side, price, size)
    /\ UNCHANGED <<running, l1Prices, l1Volumes, l1PricesBuffer,
                   l1VolumesBuffer, rawL2DataBuffer, historicalClosePrices,
                   historicalVolumes, shm, ppc, wpc, l1Data, l2Data, features,
                   minute, minuteL1P, minuteL1V, minuteL2, outcome>>
    /\ UNCHANGED queueVars

--------------------------------------------------------------------------
(***************************************************************************)
(* Pure parts of the rollover.                                             *)
(***************************************************************************)
\* aggregateL1Data reporting the first price as the close
aggregateL1Data_FirstAsClose(prices, volumes) ==
    [Open   |-> JNum(prices[1]),
     High   |-> JNum(MaxSeq(prices)),
     Low    |-> JNum(MinSeq(prices)),
     Close  |-> JNum(prices[1]),
     Volume |-> JNum(SumSeq(volumes))]

\* aggregateL1Data over the frozen L1 buffers
aggregateL1Data(prices, volumes) ==
    [Open   |-> JNum(prices[1]),
     High   |-> JNum(MaxSeq(prices)),
     Low    |-> JNum(MinSeq(prices)),
     Close  |-> JNum(prices[Len(prices)]),
     Volume |-> JNum(SumSeq(volumes))]

\* the entries aggregateL2Data and the depth features look at
Priced(buffer) == SelectSeq(Entries(buffer), LAMBDA e : e.price # 0)

RECURSIVE SideVolume(_, _)
SideVolume(es, isBuy) ==
    IF es = <<>> THEN 0
    ELSE (IF (Head(es).side = "Buy") = isBuy THEN Head(es).volume ELSE 0)
         + SideVolume(Tail(es), isBuy)

PriceSeq(es) == [i \in 1..Len(es) |-> es[i].price]

Clamp(x, lo, hi) == IF x < lo THEN lo ELSE IF x > hi THEN hi ELSE x

\* static_cast<int>((price - minPrice) / interval), clamped to [0, 19],
\* with interval = (maxPrice - minPrice) / 20
BucketIndex(price, minPrice, maxPrice) ==
    Clamp(((price - minPrice) * NumBuckets) \div (maxPrice - minPrice),
          0, NumBuckets - 1)

\* aggregateL2Data over the frozen L2 buffer: <<>> is the empty JSON array
aggregateL2Data(buffer) ==
    LET es == Priced(buffer)
    IN  IF es = <<>>
        THEN \* minPrice = DBL_MAX, maxPrice = lowest(): interval is -inf, not 0,
             \* and every mid price is -inf (Price40 = -1 stands for it)
             [i \in 1..NumBuckets |->
                 [Price40 |-> -1, BuyVolume |-> 0, SellVolume |-> 0]]
        ELSE LET minPrice == MinSeq(PriceSeq(es))
                 maxPrice == MaxSeq(PriceSeq(es))
                 InBucket(i) ==
                     SelectSeq(es, LAMBDA e :
                         BucketIndex(e.price, minPrice, maxPrice) = i - 1)
             IN  IF maxPrice = minPrice
                 THEN <<>>
                 ELSE [i \in 1..NumBuckets |->
                         [Price40    |-> 40 * minPrice
                                          + (2 * (i - 1) + 1) * (maxPrice - minPrice),
                          BuyVolume  |-> SideVolume(InBucket(i), TRUE),
                          SellVolume |-> SideVolume(InBucket(i), FALSE)]]

\* calculateWeightedAveragePrice: l1VolumesBuffer[i] for i < l1PricesBuffer.size()
calculateWeightedAveragePrice(prices, volumes) ==
    IF prices = <<>> \/ volumes = <<>> THEN <<0, 1>>
    ELSE IF Len(volumes) < Len(prices) THEN OutOfBounds
    ELSE LET n  == Len(prices)
             pv == SumSeq([i \in 1..n |-> prices[i] * volumes[i]])
             v  == SumSeq([i \in 1..n |-> volumes[i]])
         IN  IF v = 0 THEN <<0, 1>> ELSE Frac(pv, v)

calculateBuySellRatio(buffer) ==
    LET buy  == SideVolume(Priced(buffer), TRUE)
        sell == SideVolume(Priced(buffer), FALSE)
    IN  IF sell = 0 THEN <<0, 1>> ELSE Frac(buy, sell)

calculateDepthChange(buffer) ==
    SideVolume(Priced(buffer), TRUE) - SideVolume(Priced(buffer), FALSE)

\* calculateFeatures: three tasks are started, then l1Data["Volume"] is read
\* as a string; the remaining six tasks start only after that read
calculateFeatures(l1, prices, volumes, buffer) ==
    LET started == [WeightedAvgPrice |-> calculateWeightedAveragePrice(prices, volumes),
                    BuySellRatio     |-> calculateBuySellRatio(buffer),
                    DepthChange      |-> calculateDepthChange(buffer)]
    IN  [thrown   |-> JsonGetString(l1.Volume) = "type_error",
         computed |-> started]

\* updateHistoricalData without the pop_front of the full ring
PushRing_NoEvict(ring, x) == Append(ring, x)

\* updateHistoricalData: the rings after pushing the minute's close and volume
PushRing(ring, x) ==
    IF Len(ring) + 1 > MAX_HISTORY_SIZE THEN Tail(Append(ring, x))
    ELSE Append(ring, x)

\* moveDeletedItemsToBuffer, per position
LiveAfterMove(book) ==
    [p \in DOMAIN book |-> SelectSeqBy(book[p], FALSE)]

FrozenAfterMove(book, buffer) ==
    [p \in (DOMAIN buffer) \cup (DOMAIN book) |->
        At(buffer, p) \o SelectSeqBy(At(book, p), TRUE)]

Bar(datetime, l1, l2, f) ==
    [datetime |-> datetime, L1 |-> l1, L2 |-> l2, Features |-> f]

\* createCombinedJson: json::dump() writes the keys in sorted order
createCombinedJson(bar) ==
    << <<"Features", bar.Features>>, <<"L1", bar.L1>>, <<"L2", bar.L2>>,
       <<"datetime", bar.datetime>> >>

\* addToQueue putting the new bar in front
addToQueue_Front(queue, bar) == <<bar>> \o queue

\* addToQueue: std::queue::emplace
addToQueue(queue, bar) == Append(queue, bar)

--------------------------------------------------------------------------
(***************************************************************************)
(* start() and stop().                                                     *)
(***************************************************************************)
ThreadsJoined == ppc \in {"off", "done"} /\ wpc \in {"off", "done"}

\* start() with a successful connectToIB: shared memory is created and the
\* processData and writer threads are spawned
Start ==
    /\ UNCHANGED outsideRealTime
    /\ ~running
    /\ closing = "idle"
    /\ ThreadsJoined
    /\ running' = TRUE
    /\ shm' = [mapped |-> TRUE, data |-> <<>>]
    /\ ppc' = "wait"
    /\ wpc' = "loop"
    /\ UNCHANGED <<l1Prices, l1Volumes, rawL2Data, l1PricesBuffer,
                   l1VolumesBuffer, rawL2DataBuffer, historicalClosePrices,
                   historicalVolumes, l1Data, l2Data, features, minute,
                   minuteL1P, minuteL1V, minuteL2, outcome>>
    /\ UNCHANGED queueVars

\* stop() up to joinThreads: running.store(false), cv.notify_all() on the
\* condition variable of processData and monitorDataFlow, eDisconnect
StopBy(thread) ==
    /\ running
    /\ closing = "idle"
    /\ running' = FALSE
    /\ closing' = "join"
    /\ stopper' = thread
    /\ UNCHANGED <<l1Prices, l1Volumes, rawL2Data, l1PricesBuffer,
                   l1VolumesBuffer, rawL2DataBuffer, historicalClosePrices,
                   historicalVolumes, shm, ppc, wpc, l1Data, l2Data, features,
                   minute, minuteL1P, minuteL1V, minuteL2, outcome>>
    /\ UNCHANGED queueVars
    /\ UNCHANGED <<dailyVars, reqVars, connVars, supVars, raceVars, stopVars,
                   backoffAttempt, delays>>

\* stop() called by the supervisor
Stop ==
    /\ StopBy("main")
    /\ UNCHANGED reconnecting

\* joinThreads has returned: the shared memory is removed and stop() returns
StopReturn ==
    /\ closing = "join"
    /\ stopper = "main"
    /\ ppc = "done" /\ wpc = "done"
    /\ shm' = [mapped |-> FALSE, data |-> <<>>]
    /\ closing' = "idle"
    /\ stopper' = "none"
    /\ UNCHANGED <<running, l1Prices, l1Volumes, rawL2Data, l1PricesBuffer,
                   l1VolumesBuffer, rawL2DataBuffer, historicalClosePrices,
                   historicalVolumes, ppc, wpc, l1Data, l2Data, features,
                   minute, minuteL1P, minuteL1V, minuteL2, outcome>>
    /\ UNCHANGED queueVars
    /\ UNCHANGED <<dailyVars, reqVars, connVars, supVars, raceVars, stopVars,
                   backoffAttempt, delays, reconnecting>>

\* the threads of main that call dataCollector->stop(): realTimeDataThread
\* at the end of the market hours or of the program, and the main thread
\* at the end of the program
StopThreads == {"realTimeDataThread", "main"}

\* stop(): if (!running.load()) return;
StopCheck(t) ==
    /\ stopPc[t] = "out"
    /\ stopPc' = [stopPc EXCEPT ![t] = IF running THEN "checked" ELSE "returned"]
    /\ UNCHANGED <<teardowns, rtVars, dailyVars, reqVars, sessVars, connVars,
                   supVars, raceVars>>

\* stop(): running.store(false), cv.notify_all() and eDisconnect, by a
\* thread that found running true
StopStore(t) ==
    /\ stopPc[t] = "checked"
    /\ running' = FALSE
    /\ teardowns' = teardowns + 1
    /\ stopPc' = [stopPc EXCEPT ![t] = "teardown"]
    /\ UNCHANGED <<shm, ppc, wpc, aggVars, queueVars>>
    /\ UNCHANGED <<dailyVars, reqVars, sessVars, connVars, supVars, raceVars>>

\* stop(): joinThreads, which returns when the threads have ended, the
\* shared memory removed, client, reader and osSignal released.  Two
\* threads in it at once test and join the same std::thread and reset the
\* same unique_ptr, a data race: the thread gets through or ends there
StopJoin(t, survives) ==
    /\ stopPc[t] = "teardown"
    /\ ppc \in {"off", "done"} /\ wpc \in {"off", "done"}
    /\ survives \/ \E u \in StopThreads \ {t} : stopPc[u] = "teardown"
    /\ IF survives
       THEN /\ ppc' = "off" /\ wpc' = "off"
            /\ shm' = [mapped |-> FALSE, data |-> <<>>]
            /\ stopPc' = [stopPc EXCEPT ![t] = "returned"]
       ELSE /\ stopPc' = [stopPc EXCEPT ![t] = "crashed"]
            /\ UNCHANGED <<shm, ppc, wpc>>
    /\ UNCHANGED <<running, l1Prices, l1Volumes, rawL2Data, l1PricesBuffer,
                   l1VolumesBuffer, rawL2DataBuffer, historicalClosePrices,
                   historicalVolumes, l1Data, l2Data, features, minute,
                   minuteL1P, minuteL1V, minuteL2, outcome>>
    /\ UNCHANGED queueVars
    /\ UNCHANGED <<teardowns, dailyVars, reqVars, sessVars, connVars, supVars,
                   raceVars>>

\* error code 1100 or 1101 on the reader thread: handleConnectionError
\* calls reconnect(), which begins with stop()
error1100 ==
    /\ StopBy("reader")
    /\ reconnecting' = TRUE

\* joinThreads on the reader thread: after processDataThread and
\* monitorDataFlowThread it joins readerThread, the calling thread, and
\* std::thread::join throws; stop() and reconnect() are left by the exception
SelfJoin ==
    /\ closing = "join"
    /\ stopper = "reader"
    /\ ppc = "done"
    /\ closing' = "aborted"
    /\ UNCHANGED <<rtVars, dailyVars, reqVars, connVars, supVars, raceVars, stopVars>>
    /\ UNCHANGED <<backoffAttempt, delays, stopper, reconnecting>>

--------------------------------------------------------------------------
(***************************************************************************)
(* RealTimeData::error on the reader thread.                               *)
(***************************************************************************)
IntMax == 2147483647
IntMin == -2147483647 - 1

RECURSIVE Pow2(_)
Pow2(k) == IF k = 0 THEN 1 ELSE 2 * Pow2(k - 1)

\* int delaySeconds = std::pow(2, backoffAttempt): the double is exact; from
\* 2^31 on it is out of the range of int and the conversion is undefined,
\* the builds giving the smallest or the largest int
PowAsInt(k) == IF k < 31 THEN {Pow2(k)} ELSE {IntMin, IntMax}

\* if (delaySeconds > 300) delaySeconds = 300
delaySeconds(raw) == IF raw > 300 THEN 300 ELSE raw

\* error code 509: handleRateLimitExceeded sleeps and counts
handleRateLimitExceeded ==
    /\ running
    /\ \E raw \in PowAsInt(backoffAttempt) :
          delays' = Append(delays, delaySeconds(raw))
    /\ backoffAttempt' = backoffAttempt + 1
    /\ UNCHANGED <<closing, stopper, reconnecting>>
    /\ UNCHANGED <<rtVars, dailyVars, reqVars, connVars, supVars, raceVars, stopVars>>

--------------------------------------------------------------------------
(***************************************************************************)
(* The processData thread: processData and aggregateMinuteData, one action *)
(* per lock scope.                                                         *)
(***************************************************************************)
Incomplete == l1Prices = <<>> \/ l1Volumes = <<>> \/ DOMAIN rawL2Data = {}

\* cv.wait_until returns at the minute boundary with running still set;
\* aggregateMinuteData starts with the unlocked emptiness test
ProcessMinute ==
    /\ UNCHANGED outsideRealTime
    /\ ppc = "wait"
    /\ running
    /\ minute' = minute + 1
    /\ ppc' = IF Incomplete THEN "clear" ELSE "swap"
    /\ UNCHANGED <<running, l1Prices, l1Volumes, rawL2Data, l1PricesBuffer,
                   l1VolumesBuffer, rawL2DataBuffer, historicalClosePrices,
                   historicalVolumes, shm, wpc, l1Data, l2Data, features,
                   minuteL1P, minuteL1V, minuteL2, outcome>>
    /\ UNCHANGED queueVars

\* the loop of processData ends once running is false
ProcessExit ==
    /\ UNCHANGED outsideRealTime
    /\ ppc = "wait"
    /\ ~running
    /\ ppc' = "done"
    /\ UNCHANGED <<running, wpc>>
    /\ UNCHANGED aggVars
    /\ UNCHANGED queueVars

\* clearTemporaryData leaving the live L2 book as it is
clearTemporaryData_KeepBook ==
    /\ UNCHANGED outsideRealTime
    /\ ppc = "clear"
    /\ l1Prices' = <<>>
    /\ l1Volumes' = <<>>
    /\ outcome' = "skipped"
    /\ ppc' = "wait"
    /\ UNCHANGED <<running, rawL2Data, l1PricesBuffer, l1VolumesBuffer,
                   rawL2DataBuffer, historicalClosePrices, historicalVolumes,
                   shm, wpc, l1Data, l2Data, features, minute, minuteL1P,
                   minuteL1V, minuteL2>>
    /\ UNCHANGED queueVars

\* clearTemporaryData, then aggregateMinuteData returns
clearTemporaryData ==
    /\ UNCHANGED outsideRealTime
    /\ ppc = "clear"
    /\ l1Prices' = <<>>
    /\ l1Volumes' = <<>>
    /\ rawL2Data' = EmptyMap
    /\ outcome' = "skipped"
    /\ ppc' = "wait"
    /\ UNCHANGED <<running, l1PricesBuffer, l1VolumesBuffer, rawL2DataBuffer,
                   historicalClosePrices, historicalVolumes, shm, wpc, l1Data,
                   l2Data, features, minute, minuteL1P, minuteL1V, minuteL2>>
    /\ UNCHANGED queueVars

swapBuffers ==
    /\ UNCHANGED outsideRealTime
    /\ ppc = "swap"
    /\ l1Prices' = l1PricesBuffer
    /\ l1PricesBuffer' = l1Prices
    /\ l1Volumes' = l1VolumesBuffer
    /\ l1VolumesBuffer' = l1Volumes
    /\ minuteL1P' = l1Prices
    /\ minuteL1V' = l1Volumes
    /\ ppc' = "move"
    /\ UNCHANGED <<running, rawL2Data, rawL2DataBuffer, historicalClosePrices,
                   historicalVolumes, shm, wpc, l1Data, l2Data, features,
                   minute, minuteL2, outcome>>
    /\ UNCHANGED queueVars

\* swapBuffers while the reader thread is inside l1Prices.push_back(price)
\* of tickPrice, which takes no dataMutex: a data race on the vector.  The
\* push_back that reallocates copies the ticks to new storage and writes its
\* pointers over the swapped ones, so the live vector keeps the ticks and
\* the new one while the frozen buffer is left with the released storage;
\* or the thread ends on a torn vector.  The outcomes in which the tick
\* lands wholly before or after the swap are tickPrice and swapBuffers.
SwapRace(price, survives) ==
    /\ UNCHANGED outsideRealTime
    /\ ppc = "swap"
    /\ running
    /\ IF survives
       THEN /\ l1Prices' = Append(l1Prices, price)
            /\ l1PricesBuffer' = l1Prices
            /\ l1Volumes' = l1VolumesBuffer
            /\ l1VolumesBuffer' = l1Volumes
            /\ minuteL1P' = l1Prices
            /\ minuteL1V' = l1Volumes
            /\ ppc' = "move"
       ELSE /\ ppc' = "crashed"
            /\ UNCHANGED <<l1Prices, l1PricesBuffer, l1Volumes, l1VolumesBuffer,
                           minuteL1P, minuteL1V>>
    /\ UNCHANGED <<running, rawL2Data, rawL2DataBuffer, historicalClosePrices,
                   historicalVolumes, shm, wpc, l1Data, l2Data, features,
                   minute, minuteL2, outcome>>
    /\ UNCHANGED queueVars

moveDeletedItemsToBuffer ==
    /\ UNCHANGED outsideRealTime
    /\ ppc = "move"
    /\ rawL2Data' = LiveAfterMove(rawL2Data)
    /\ rawL2DataBuffer' = FrozenAfterMove(rawL2Data, rawL2DataBuffer)
    /\ minuteL2' = SelectSeqBy(Entries(rawL2Data), FALSE)
    /\ ppc' = "aggregate"
    /\ UNCHANGED <<running, l1Prices, l1Volumes, l1PricesBuffer,
                   l1VolumesBuffer, historicalClosePrices, historicalVolumes,
                   shm, wpc, l1Data, l2Data, features, minute, minuteL1P,
                   minuteL1V, outcome>>
    /\ UNCHANGED queueVars

\* the strings of an entry std::make_move_iterator has moved from: they keep
\* their content or are left empty, as the library chooses
MovedFrom(e, kept) ==
    IF kept THEN e ELSE [e EXCEPT !.side = "", !.status = ""]

\* moveDeletedItemsToBuffer, the lock taken: std::stable_partition and the
\* insert into rawL2DataBuffer; the entries behind `it` stay in the vector,
\* moved from, until the erase
MovePartition(kept) ==
    /\ UNCHANGED outsideData
    /\ ppc = "move"
    /\ rawL2Data' =
          [p \in DOMAIN rawL2Data |->
              LET gone == SelectSeqBy(rawL2Data[p], TRUE)
              IN  SelectSeqBy(rawL2Data[p], FALSE)
                  \o [i \in 1..Len(gone) |-> MovedFrom(gone[i], kept)]]
    /\ rawL2DataBuffer' = FrozenAfterMove(rawL2Data, rawL2DataBuffer)
    /\ cut' = [p \in DOMAIN rawL2Data |->
                 [it   |-> Len(SelectSeqBy(rawL2Data[p], FALSE)),
                  size |-> Len(rawL2Data[p])]]
    /\ minuteL2' = SelectSeqBy(Entries(rawL2Data), FALSE)
    /\ ppc' = "erase"
    /\ UNCHANGED <<running, l1Prices, l1Volumes, l1PricesBuffer,
                   l1VolumesBuffer, historicalClosePrices, historicalVolumes,
                   shm, wpc, l1Data, l2Data, features, minute, minuteL1P,
                   minuteL1V, outcome>>
    /\ UNCHANGED queueVars

\* a vector a callback has appended to since the partition
Grown(book, p) == p \in DOMAIN cut /\ Len(At(book, p)) > cut[p].size

\* moveDeletedItemsToBuffer: dataPoints.erase(it, dataPoints.end()) and the
\* lock released.  An append that reallocated the vector has invalidated
\* `it`, and the erase through it is undefined: the thread ends there or the
\* erase goes through.
MoveErase(survives) ==
    /\ UNCHANGED outsideData
    /\ ppc = "erase"
    /\ IF (\E p \in DOMAIN rawL2Data : Grown(rawL2Data, p)) /\ ~survives
       THEN /\ ppc' = "crashed"
            /\ UNCHANGED rawL2Data
       ELSE /\ ppc' = "aggregate"
            /\ rawL2Data' =
                  [p \in DOMAIN rawL2Data |->
                      IF p \in DOMAIN cut
                      THEN SubSeq(rawL2Data[p], 1, cut[p].it)
                      ELSE rawL2Data[p]]
    /\ cut' = EmptyMap
    /\ UNCHANGED <<running, l1Prices, l1Volumes, l1PricesBuffer,
                   l1VolumesBuffer, rawL2DataBuffer, historicalClosePrices,
                   historicalVolumes, shm, wpc, l1Data, l2Data, features,
                   minute, minuteL1P, minuteL1V, minuteL2, outcome>>
    /\ UNCHANGED queueVars

\* updateHistoricalData, then the two aggregation tasks and calculateFeatures
\* (lines 311 to 330 of aggregateMinuteData); all of it reads the frozen
\* buffers only
Aggregate ==
    /\ UNCHANGED outsideRealTime
    /\ ppc = "aggregate"
    /\ historicalClosePrices' =
          PushRing(historicalClosePrices, l1PricesBuffer[Len(l1PricesBuffer)])
    /\ historicalVolumes' = PushRing(historicalVolumes, SumSeq(l1VolumesBuffer))
    /\ l1Data' = aggregateL1Data(l1PricesBuffer, l1VolumesBuffer)
    /\ l2Data' = aggregateL2Data(rawL2DataBuffer)
    /\ features' = calculateFeatures(aggregateL1Data(l1PricesBuffer, l1VolumesBuffer),
                                     l1PricesBuffer, l1VolumesBuffer,
                                     rawL2DataBuffer).computed
    /\ ppc' = "finish"
    /\ UNCHANGED <<running, l1Prices, l1Volumes, rawL2Data, l1PricesBuffer,
                   l1VolumesBuffer, rawL2DataBuffer, shm, wpc, minute,
                   minuteL1P, minuteL1V, minuteL2, outcome>>
    /\ UNCHANGED queueVars

\* queueCV.notify_one(): a writer asleep on queueCV tests its predicate again
Notified(w) == IF w = "blocked" THEN "wait" ELSE w

\* the end of aggregateMinuteData: addToQueue, writeToSharedMemory and
\* clearBufferData when calculateFeatures returned; the catch block, with
\* clearBufferData alone, when it threw.  The locals go out of scope.
FinishMinute ==
    /\ UNCHANGED outsideRealTime
    /\ ppc = "finish"
    /\ LET bar == Bar(minute, l1Data, l2Data, features)
       IN  IF calculateFeatures(l1Data, l1PricesBuffer, l1VolumesBuffer,
                                rawL2DataBuffer).thrown
           THEN /\ outcome' = "exception"
                /\ UNCHANGED <<dataQueue, accepted, shm, wpc>>
           ELSE /\ outcome' = "emitted"
                /\ wpc' = Notified(wpc)
                /\ dataQueue' = addToQueue(dataQueue, bar)
                /\ accepted' = Append(accepted, bar)
                /\ shm' = [shm EXCEPT !.data = createCombinedJson(bar)]
    /\ l1PricesBuffer' = <<>>
    /\ l1VolumesBuffer' = <<>>
    /\ rawL2DataBuffer' = EmptyMap
    /\ l1Data' = NoL1 /\ l2Data' = <<>> /\ features' = NoFeatures
    /\ minuteL1P' = <<>> /\ minuteL1V' = <<>> /\ minuteL2' = <<>>
    /\ ppc' = "wait"
    /\ UNCHANGED <<running, l1Prices, l1Volumes, rawL2Data,
                   historicalClosePrices, historicalVolumes, minute,
                   realtimeRows, failures>>

--------------------------------------------------------------------------
(***************************************************************************)
(* The writer thread: writeToDatabaseFunc.  queueMutex is held from the    *)
(* wait to the end of the inner loop, the database insert included.        *)
(***************************************************************************)
QueueMutexFree == wpc # "drain"

\* TimescaleDB::insertRealTimeData: the row is stored and true returned, or
\* nothing is stored and false returned
insertRealTimeData(rows, bar, ok) == IF ok THEN Append(rows, bar) ELSE rows

\* the outer loop of the writer ending as soon as running is false
WriterLoop_ExitOnStop ==
    /\ UNCHANGED outsideRealTime
    /\ wpc = "loop"
    /\ wpc' = IF running THEN "wait" ELSE "done"
    /\ UNCHANGED <<running, ppc>>
    /\ UNCHANGED aggVars
    /\ UNCHANGED queueVars

\* while (running.load() || !dataQueue.empty())
WriterLoop ==
    /\ UNCHANGED outsideRealTime
    /\ wpc = "loop"
    /\ wpc' = IF running \/ dataQueue # <<>> THEN "wait" ELSE "done"
    /\ UNCHANGED <<running, ppc>>
    /\ UNCHANGED aggVars
    /\ UNCHANGED queueVars

\* queueCV.wait(lock, [] { return !dataQueue.empty() || !running.load(); })
WriterWait ==
    /\ UNCHANGED outsideRealTime
    /\ wpc = "wait"
    /\ dataQueue # <<>> \/ ~running
    /\ wpc' = "drain"
    /\ UNCHANGED <<running, ppc>>
    /\ UNCHANGED aggVars
    /\ UNCHANGED queueVars

\* queueCV.wait finds its predicate false and sleeps until queueCV is
\* notified
WriterBlock ==
    /\ UNCHANGED outsideRealTime
    /\ wpc = "wait"
    /\ dataQueue = <<>> /\ running
    /\ wpc' = "blocked"
    /\ UNCHANGED <<running, ppc>>
    /\ UNCHANGED aggVars
    /\ UNCHANGED queueVars

\* the inner loop popping the head whatever the insert returned
QueueAfterInsert_AlwaysPop(queue, ok) == Tail(queue)

\* the queue after one pass of the inner loop over the head record
QueueAfterInsert(queue, ok) == IF ok THEN Tail(queue) ELSE queue

\* one pass of the inner loop: insert the head; pop it on success, break on
\* failure
WriterInsert(ok) ==
    /\ UNCHANGED outsideRealTime
    /\ wpc = "drain"
    /\ dataQueue # <<>>
    /\ ok \/ failures < MaxFailures
    /\ realtimeRows' = insertRealTimeData(realtimeRows, Head(dataQueue), ok)
    /\ dataQueue' = QueueAfterInsert(dataQueue, ok)
    /\ failures' = IF ok THEN failures ELSE failures + 1
    /\ wpc' = IF ok THEN "drain" ELSE "loop"
    /\ UNCHANGED <<running, ppc, accepted>>
    /\ UNCHANGED aggVars

\* the inner loop ends on the empty queue
WriterDrainEnd ==
    /\ UNCHANGED outsideRealTime
    /\ wpc = "drain"
    /\ dataQueue = <<>>
    /\ wpc' = "loop"
    /\ UNCHANGED <<running, ppc>>
    /\ UNCHANGED aggVars
    /\ UNCHANGED queueVars

--------------------------------------------------------------------------
(***************************************************************************)
(* The persistence queue taken by itself: the processData thread is the    *)
(* only producer and calls addToQueue once per aggregated minute, with     *)
(* whatever bar the aggregation built.                                     *)
(***************************************************************************)
\* the minute boundary: the thread is inside aggregateMinuteData
ProducerMinute ==
    /\ UNCHANGED outsideRealTime
    /\ ppc = "wait"
    /\ running
    /\ Len(accepted) < MaxBars
    /\ minute' = minute + 1
    /\ ppc' = "enqueue"
    /\ UNCHANGED <<running, wpc, l1Prices, l1Volumes, rawL2Data, l1PricesBuffer,
                   l1VolumesBuffer, rawL2DataBuffer, historicalClosePrices,
                   historicalVolumes, shm, l1Data, l2Data, features,
                   minuteL1P, minuteL1V, minuteL2, outcome>>
    /\ UNCHANGED queueVars

\* the call of addToQueue in aggregateMinuteData, which takes queueMutex
ProducerEnqueue ==
    /\ UNCHANGED outsideRealTime
    /\ ppc = "enqueue"
    /\ QueueMutexFree
    /\ LET bar == Bar(minute, l1Data, l2Data, features)
       IN  /\ dataQueue' = addToQueue(dataQueue, bar)
           /\ accepted' = Append(accepted, bar)
    /\ ppc' = "wait"
    /\ wpc' = Notified(wpc)
    /\ UNCHANGED <<running, realtimeRows, failures>>
    /\ UNCHANGED aggVars

--------------------------------------------------------------------------
(***************************************************************************)
(* DailyDataFetcher: the indicator kernel.  A double is a reduced fraction *)
(* <<n, d>>; closes and volumes are whole numbers.                         *)
(***************************************************************************)
smaPeriod == 20
emaPeriod == 20
rsiPeriod == 14
momentumPeriod == 10
shortPeriod == 12
longPeriod == 26
maxPeriod == 26

Zero == <<0, 1>>
Num(x) == <<x, 1>>
FracSub(a, b) == Frac(a[1] * b[2] - b[1] * a[2], a[2] * b[2])

\* the last n elements of a sequence
LastN(q, n) == IF Len(q) > n THEN SubSeq(q, Len(q) - n + 1, Len(q)) ELSE q

\* what std::map::operator[] creates for a symbol not seen before; lastClose
\* is <<>> while the map lastClose has no entry for the symbol
NoIndicators ==
    [closingPrices |-> <<>>, emaValues |-> Zero, emaDataPoints |-> 0,
     gains |-> <<>>, losses |-> <<>>, lastClose |-> <<>>,
     cumulativePriceVolume |-> 0, cumulativeVolume |-> 0]

\* calculateSMA: the state of the symbol afterwards and the value returned
calculateSMA(k, close, period) ==
    LET window == LastN(Append(k.closingPrices, close), period)
    IN  [k   |-> [k EXCEPT !.closingPrices = window],
         val |-> IF Len(window) < period THEN Num(close)
                 ELSE Frac(SumSeq(window), period)]

\* (close - ema) * 2 / (period + 1) + ema
EmaStep(ema, close, period) ==
    Frac(2 * (close * ema[2] - ema[1]) + ema[1] * (period + 1),
         ema[2] * (period + 1))

calculateEMA(k, close, period) ==
    IF k.emaDataPoints < period
    THEN calculateSMA(k, close, period)
    ELSE LET e == EmaStep(k.emaValues, close, period)
         IN  [k   |-> [k EXCEPT !.emaValues = e,
                                !.emaDataPoints = k.emaDataPoints + 1],
              val |-> e]

Max0(x) == IF x > 0 THEN x ELSE 0

\* calculateRSI: with G and L the sums of the gains and of the losses,
\* 100 - 100 / (1 + (G / period) / (L / period)) = 100 G / (G + L)
calculateRSI(k, close, period) ==
    IF k.lastClose = <<>>
    THEN [k |-> [k EXCEPT !.lastClose = <<close>>], val |-> Num(50)]
    ELSE LET change == close - k.lastClose[1]
             g0 == Append(k.gains, Max0(change))
             l0 == Append(k.losses, Max0(-change))
             g  == IF Len(g0) > period THEN Tail(g0) ELSE g0
             l  == IF Len(g0) > period THEN Tail(l0) ELSE l0
         IN  [k   |-> [k EXCEPT !.lastClose = <<close>>, !.gains = g,
                                !.losses = l],
              val |-> IF Len(g) < period THEN Num(50)
                      ELSE IF SumSeq(l) = 0 THEN Num(100)
                      ELSE Frac(100 * SumSeq(g), SumSeq(g) + SumSeq(l))]

calculateMACD(k, close) ==
    LET shortEMA == calculateEMA(k, close, shortPeriod)
        longEMA  == calculateEMA(shortEMA.k, close, longPeriod)
    IN  [k |-> longEMA.k, val |-> FracSub(shortEMA.val, longEMA.val)]

calculateVWAP(k, volume, close) ==
    LET pv == k.cumulativePriceVolume + close * volume
        v  == k.cumulativeVolume + volume
    IN  [k   |-> [k EXCEPT !.cumulativePriceVolume = pv,
                           !.cumulativeVolume = v],
         val |-> IF v = 0 THEN Num(close) ELSE Frac(pv, v)]

calculateMomentum(k, close, period) ==
    [k   |-> k,
     val |-> IF Len(k.closingPrices) < period THEN Zero
             ELSE Num(close - k.closingPrices[1])]

\* an optional field of the map given to storeDailyData: 0.0 when it is absent
Optional(data, field) == IF field \in DOMAIN data THEN data[field] ELSE Zero

\* one of the "if (dbData[field] == 0.0) dbData[field] = calculate...()" lines
IfZero(given, k, calculated) ==
    IF given = Zero THEN calculated ELSE [k |-> k, val |-> given]

\* storeDailyData up to its call of addToQueue: the state of the symbol
\* afterwards and the DataItem given to addToQueue, <<>> when the function
\* returns early on a missing "date"
storeDailyData(k, symbol, data) ==
    IF "date" \notin DOMAIN data
    THEN [k |-> k, queued |-> <<>>]
    ELSE LET close    == data.close
             volume   == data.volume
             adjClose == IF "adj_close" \in DOMAIN data
                         THEN data.adj_close[1] ELSE close
             sma  == IfZero(Optional(data, "sma"), k,
                            calculateSMA(k, adjClose, smaPeriod))
             ema  == IfZero(Optional(data, "ema"), sma.k,
                            calculateEMA(sma.k, adjClose, emaPeriod))
             rsi  == IfZero(Optional(data, "rsi"), ema.k,
                            calculateRSI(ema.k, adjClose, rsiPeriod))
             macd == IfZero(Optional(data, "macd"), rsi.k,
                            calculateMACD(rsi.k, adjClose))
             vwap == IfZero(Optional(data, "vwap"), macd.k,
                            calculateVWAP(macd.k, volume, adjClose))
             mom  == IfZero(Optional(data, "momentum"), vwap.k,
                            calculateMomentum(vwap.k, adjClose, momentumPeriod))
             dbData == [symbol |-> symbol, open |-> data.open,
                        high |-> data.high, low |-> data.low,
                        close |-> close, volume |-> volume,
                        adj_close |-> IF Optional(data, "adj_close") = Zero
                                      THEN Num(adjClose)
                                      ELSE data.adj_close,
                        sma |-> sma.val, ema |-> ema.val, rsi |-> rsi.val,
                        macd |-> macd.val, vwap |-> vwap.val,
                        momentum |-> mom.val]
         IN  [k |-> mom.k, queued |-> <<[date |-> data.date, data |-> dbData]>>]

--------------------------------------------------------------------------
(***************************************************************************)
(* DailyDataFetcher: the database as the fetcher uses it.                  *)
(***************************************************************************)
\* the primary key of daily_data as createTables declares it
DailyPrimaryKey(date, data) == <<date>>

\* TimescaleDB::insertOrUpdateDailyData: upsert by primary key and true, or
\* nothing stored and false
insertOrUpdateDailyData(rows, date, data, ok) ==
    IF ok
    THEN LET key == DailyPrimaryKey(date, data)
         IN  [q \in (DOMAIN rows) \cup {key} |->
                 IF q = key THEN [date |-> date, data |-> data] ELSE rows[q]]
    ELSE rows

NoRows == [q \in {} |-> <<>>]

\* the dates of the rows of a symbol
DatesOf(rows, symbol) ==
    {rows[q].date : q \in {x \in DOMAIN rows : rows[x].data.symbol = symbol}}

MaxOf(S) == CHOOSE x \in S : \A y \in S : y <= x
MinOf(S) == CHOOSE x \in S : \A y \in S : x <= y

\* TimescaleDB::getLastDailyEndDate and getFirstDailyStartDate: MAX(date) and
\* MIN(date) of the symbol, 0 standing for the empty string
getLastDailyEndDate(rows, symbol) ==
    IF DatesOf(rows, symbol) = {} THEN 0 ELSE MaxOf(DatesOf(rows, symbol))

getFirstDailyStartDate(rows, symbol) ==
    IF DatesOf(rows, symbol) = {} THEN 0 ELSE MinOf(DatesOf(rows, symbol))

RowOf(rows, symbol, date) ==
    rows[CHOOSE q \in DOMAIN rows :
            rows[q].date = date /\ rows[q].data.symbol = symbol]

RECURSIVE RowsByDateDesc(_, _, _, _)
RowsByDateDesc(rows, symbol, dates, n) ==
    IF dates = {} \/ n = 0 THEN <<>>
    ELSE LET d == MaxOf(dates)
         IN  <<RowOf(rows, symbol, d).data>>
             \o RowsByDateDesc(rows, symbol, dates \ {d}, n - 1)

\* TimescaleDB::getRecentHistoricalData: the n most recent rows of the symbol,
\* newest first
getRecentHistoricalData(rows, symbol, n) ==
    RowsByDateDesc(rows, symbol, DatesOf(rows, symbol), n)

--------------------------------------------------------------------------
(***************************************************************************)
(* DailyDataFetcher: seeding, the priority queue and the writer thread.    *)
(***************************************************************************)
\* the body of the loop of initializeIndicatorData for one persisted row
SeedOne(k, data, period) ==
    LET close == data.close
        seen  == k.lastClose # <<>>
        g0    == Append(k.gains, Max0(close - k.lastClose[1]))
        l0    == Append(k.losses, Max0(k.lastClose[1] - close))
    IN  [closingPrices |-> LET c == Append(k.closingPrices, close)
                           IN  IF Len(c) > period THEN Tail(c) ELSE c,
         emaValues     |-> IF k.emaDataPoints = 0 THEN Num(close)
                           ELSE EmaStep(k.emaValues, close, period),
         emaDataPoints |-> k.emaDataPoints + 1,
         gains         |-> IF ~seen THEN k.gains
                           ELSE IF Len(g0) > period THEN Tail(g0) ELSE g0,
         losses        |-> IF ~seen THEN k.losses
                           ELSE IF Len(g0) > period THEN Tail(l0) ELSE l0,
         lastClose     |-> <<close>>,
         cumulativePriceVolume |-> k.cumulativePriceVolume + close * data.volume,
         cumulativeVolume      |-> k.cumulativeVolume + data.volume]

RECURSIVE initializeIndicatorData(_, _, _)
\* initializeIndicatorData over the rows getRecentHistoricalData returned
initializeIndicatorData(k, historicalData, period) ==
    IF historicalData = <<>> THEN k
    ELSE initializeIndicatorData(SeedOne(k, Head(historicalData), period),
                                 Tail(historicalData), period)

\* the daily addToQueue: std::priority_queue::push
dailyAddToQueue(queue, queued) == queue \o queued

\* CompareDataItem: the indexes priority_queue::top can return, the items of
\* the smallest date
TopIndexes(queue) ==
    {i \in 1..Len(queue) : \A j \in 1..Len(queue) : queue[i].date <= queue[j].date}

RemoveAt(q, i) == SubSeq(q, 1, i - 1) \o SubSeq(q, i + 1, Len(q))

DailyQueueMutexFree == dwpc # "drain"

\* while (running.load() || !dataQueue.empty())
DailyWriterLoop ==
    /\ dwpc = "loop"
    /\ dwpc' = IF dailyRunning \/ dailyQueue # <<>> THEN "wait" ELSE "done"
    /\ UNCHANGED <<dailyRunning, indicators, dailyQueue, dailyRows, dpc, item,
                   incremental, symIdx, day, passes, observed, dailyAccepted,
                   dailyWritten, dailyFailures, rowsAfterFirst>>
    /\ UNCHANGED <<reqVars, outsideDaily>>

\* queueCV.wait(lock, [] { return !dataQueue.empty() || !running.load(); })
DailyWriterWait ==
    /\ dwpc = "wait"
    /\ dailyQueue # <<>> \/ ~dailyRunning
    /\ dwpc' = "drain"
    /\ UNCHANGED <<dailyRunning, indicators, dailyQueue, dailyRows, dpc, item,
                   incremental, symIdx, day, passes, observed, dailyAccepted,
                   dailyWritten, dailyFailures, rowsAfterFirst>>
    /\ UNCHANGED <<reqVars, outsideDaily>>

\* the head of the inner loop: top(), pop() and lock.unlock(), or the end of
\* the loop on the empty queue
DailyWriterPop ==
    /\ dwpc = "drain"
    /\ IF dailyQueue = <<>>
       THEN /\ dwpc' = "loop"
            /\ UNCHANGED <<dailyQueue, item>>
       ELSE \E i \in TopIndexes(dailyQueue) :
               /\ item' = <<dailyQueue[i]>>
               /\ dailyQueue' = RemoveAt(dailyQueue, i)
               /\ dwpc' = "insert"
    /\ UNCHANGED <<dailyRunning, indicators, dailyRows, dpc, incremental,
                   symIdx, day, passes, observed, dailyAccepted, dailyWritten,
                   dailyFailures, rowsAfterFirst>>
    /\ UNCHANGED <<reqVars, outsideDaily>>

\* what the writer does with the item it could not write:
\* storeDailyData(symbol, item.data), the state of the symbol afterwards and
\* what that call enqueues
RetryStore(k, dataItem) == storeDailyData(k, dataItem.data.symbol, dataItem.data)

\* the rest of the inner loop: the upsert; on true the loop goes on, on false
\* (or an exception) the item is handed to storeDailyData and the loop is left
DailyWriterInsert(ok) ==
    /\ dwpc = "insert"
    /\ dailyRows' = insertOrUpdateDailyData(dailyRows, item[1].date, item[1].data, ok)
    /\ IF ok
       THEN /\ dailyWritten' = dailyWritten \cup {item[1]}
            /\ dwpc' = "drain"
            /\ UNCHANGED <<indicators, dailyQueue, dailyAccepted, dailyFailures>>
       ELSE LET sym   == item[1].data.symbol
                retry == RetryStore(indicators[sym], item[1])
            IN  /\ indicators' = [indicators EXCEPT ![sym] = retry.k]
                /\ dailyQueue' = dailyAddToQueue(dailyQueue, retry.queued)
                /\ dailyAccepted' =
                      dailyAccepted \cup {retry.queued[i] : i \in 1..Len(retry.queued)}
                /\ dailyFailures' = dailyFailures + 1
                /\ dwpc' = "loop"
                /\ UNCHANGED dailyWritten
    /\ item' = <<>>
    /\ UNCHANGED <<dailyRunning, dpc, incremental, symIdx, day, passes,
                   observed, rowsAfterFirst>>
    /\ UNCHANGED <<reqVars, outsideDaily>>

--------------------------------------------------------------------------
(***************************************************************************)
(* Calendar.  A date is the number of its day, day 1 being Tuesday         *)
(* 2024-01-02; struct tm is a record with the fields the code reads.       *)
(* requestDailyData steps a time_t by 24 hours from a midnight taken with  *)
(* tm_isdst = 0, which lands on every calendar day once.                   *)
(***************************************************************************)
epochYear == 2024
epochYearDay == 2
epochWeekDay == 2

IsLeap(y) == (y % 4 = 0 /\ y % 100 # 0) \/ y % 400 = 0

DaysInYear(y) == IF IsLeap(y) THEN 366 ELSE 365

\* tm_mon counts from 0
DaysInMonth(y, mon) ==
    IF mon = 1 THEN (IF IsLeap(y) THEN 29 ELSE 28)
    ELSE IF mon \in {3, 5, 8, 10} THEN 30 ELSE 31

RECURSIVE MonthOf(_, _, _)
\* the month and the day of the month of the n-th day of year y
MonthOf(y, mon, n) ==
    IF n > DaysInMonth(y, mon) THEN MonthOf(y, mon + 1, n - DaysInMonth(y, mon))
    ELSE [tm_mon |-> mon, tm_mday |-> n]

RECURSIVE YearOf(_, _)
YearOf(y, n) ==
    IF n > DaysInYear(y) THEN YearOf(y + 1, n - DaysInYear(y))
    ELSE [tm_year |-> y, tm_yday |-> n]

\* localtime(): the broken-down time of a day
LocalTime(d) ==
    LET yd == YearOf(epochYear, d + epochYearDay - 1)
        md == MonthOf(yd.tm_year, 0, yd.tm_yday)
    IN  [tm_year |-> yd.tm_year, tm_mon |-> md.tm_mon, tm_mday |-> md.tm_mday,
         tm_wday |-> (epochWeekDay + d - 1) % 7]

RECURSIVE DaysBeforeMonth(_, _)
DaysBeforeMonth(y, mon) ==
    IF mon = 0 THEN 0 ELSE DaysInMonth(y, mon - 1) + DaysBeforeMonth(y, mon - 1)

RECURSIVE DaysBeforeYear(_)
DaysBeforeYear(y) ==
    IF y = epochYear THEN 0 ELSE DaysInYear(y - 1) + DaysBeforeYear(y - 1)

\* mktime(): the day of a broken-down time, whose tm_mday may run past the
\* end of its month
MkTime(tm) ==
    DaysBeforeYear(tm.tm_year) + DaysBeforeMonth(tm.tm_year, tm.tm_mon)
        + tm.tm_mday - epochYearDay + 1

\* getNextDay without the increment of tm_mday
getNextDay_SameDay(date) == MkTime(LocalTime(date))

\* getNextDay: parse, tm_mday += 1, mktime, format
getNextDay(date) ==
    MkTime([LocalTime(date) EXCEPT !.tm_mday = LocalTime(date).tm_mday + 1])

\* isMarketClosed without Independence Day
isMarketClosed_NoJulyFourth(date) ==
    \/ date.tm_wday = 0 \/ date.tm_wday = 6
    \/ date.tm_mon = 0 /\ date.tm_mday = 1
    \/ date.tm_mon = 0 /\ date.tm_wday = 1 /\ date.tm_mday >= 15 /\ date.tm_mday <= 21
    \/ date.tm_mon = 1 /\ date.tm_wday = 1 /\ date.tm_mday >= 15 /\ date.tm_mday <= 21
    \/ date.tm_mon = 4 /\ date.tm_wday = 1 /\ date.tm_mday >= 25
    \/ date.tm_mon = 8 /\ date.tm_wday = 1 /\ date.tm_mday <= 7
    \/ date.tm_mon = 10 /\ date.tm_wday = 4 /\ date.tm_mday >= 22 /\ date.tm_mday <= 28
    \/ date.tm_mon = 11 /\ date.tm_mday = 25

\* isMarketClosed with Memorial Day as the fourth Monday of May
isMarketClosed_MemorialFourthMonday(date) ==
    \/ date.tm_wday = 0 \/ date.tm_wday = 6
    \/ date.tm_mon = 0 /\ date.tm_mday = 1
    \/ date.tm_mon = 0 /\ date.tm_wday = 1 /\ date.tm_mday >= 15 /\ date.tm_mday <= 21
    \/ date.tm_mon = 1 /\ date.tm_wday = 1 /\ date.tm_mday >= 15 /\ date.tm_mday <= 21
    \/ date.tm_mon = 4 /\ date.tm_wday = 1 /\ date.tm_mday >= 22 /\ date.tm_mday <= 28
    \/ date.tm_mon = 6 /\ date.tm_mday = 4
    \/ date.tm_mon = 8 /\ date.tm_wday = 1 /\ date.tm_mday <= 7
    \/ date.tm_mon = 10 /\ date.tm_wday = 4 /\ date.tm_mday >= 22 /\ date.tm_mday <= 28
    \/ date.tm_mon = 11 /\ date.tm_mday = 25

isMarketClosed(date) ==
    \/ date.tm_wday = 0 \/ date.tm_wday = 6
    \/ date.tm_mon = 0 /\ date.tm_mday = 1
    \/ date.tm_mon = 0 /\ date.tm_wday = 1 /\ date.tm_mday >= 15 /\ date.tm_mday <= 21
    \/ date.tm_mon = 1 /\ date.tm_wday = 1 /\ date.tm_mday >= 15 /\ date.tm_mday <= 21
    \/ date.tm_mon = 4 /\ date.tm_wday = 1 /\ date.tm_mday >= 25
    \/ date.tm_mon = 6 /\ date.tm_mday = 4
    \/ date.tm_mon = 8 /\ date.tm_wday = 1 /\ date.tm_mday <= 7
    \/ date.tm_mon = 10 /\ date.tm_wday = 4 /\ date.tm_mday >= 22 /\ date.tm_mday <= 28
    \/ date.tm_mon = 11 /\ date.tm_mday = 25

--------------------------------------------------------------------------
(***************************************************************************)
(* DailyDataFetcher: fetchAndProcessDailyData and requestDailyData.  The   *)
(* gateway connects and answers every request with the day's bar; days are *)
(* numbered trading days.                                                  *)
(***************************************************************************)
\* the first symbols of the list behind "ALL"
Symbols == <<"SPY", "QQQ">>

\* the market data of the gateway: the same bar whenever a day is asked for
CloseOf(symbol, d) == IF symbol = "SPY" THEN 100 + d ELSE 300 - 2 * d
VolumeOf(symbol, d) == IF symbol = "SPY" THEN 10 + d ELSE 5

\* the map historicalData() builds from the Bar of the gateway
IBBar(symbol, d) ==
    [date |-> d, open |-> CloseOf(symbol, d), high |-> CloseOf(symbol, d),
     low |-> CloseOf(symbol, d), close |-> CloseOf(symbol, d),
     volume |-> VolumeOf(symbol, d)]

InitDaily ==
    /\ dailyRunning = FALSE
    /\ indicators = [sym \in {Symbols[i] : i \in 1..Len(Symbols)} |-> NoIndicators]
    /\ dailyQueue = <<>>
    /\ dailyRows = NoRows
    /\ dpc = "idle" /\ dwpc = "off"
    /\ item = <<>>
    /\ incremental = FALSE
    /\ symIdx = 0 /\ day = 0 /\ passes = 0
    /\ observed = [sym \in {Symbols[i] : i \in 1..Len(Symbols)} |-> <<>>]
    /\ dailyAccepted = {} /\ dailyWritten = {}
    /\ dailyFailures = 0
    /\ rowsAfterFirst = NoRows
    /\ requests = <<>> /\ succeeded = {}
    /\ client = "null"
    /\ retryCount = 0
    /\ dataReceived = FALSE
    /\ historicalDataBuffer = <<>>
    /\ inflight = <<>>
    /\ spc = "idle" /\ stopAt = -1
    /\ crashed = FALSE

\* the head of fetchAndProcessDailyData: the writer thread of the previous
\* call is joined and a new one is started
FetchBegin(inc) ==
    /\ dpc = "idle"
    /\ dwpc \in {"off", "done"}
    /\ dwpc' = "loop"
    /\ incremental' = inc
    /\ dpc' = "start"
    /\ UNCHANGED <<dailyRunning, indicators, dailyQueue, dailyRows, item,
                   symIdx, day, passes, observed, dailyAccepted, dailyWritten,
                   dailyFailures, rowsAfterFirst>>
    /\ UNCHANGED <<reqVars, outsideDaily>>

\* running.store(true) and a successful connectToIB
FetchRun ==
    /\ dpc = "start"
    /\ dailyRunning' = TRUE
    /\ symIdx' = 1
    /\ dpc' = "symbol"
    /\ client' = "connected"
    /\ UNCHANGED <<indicators, dailyQueue, dailyRows, dwpc, item, incremental,
                   day, passes, observed, dailyAccepted, dailyWritten,
                   dailyFailures, rowsAfterFirst>>
    /\ UNCHANGED <<waitVars, requests, succeeded, outsideDaily>>

\* the first day to request for a symbol
StartDay(rows, symbol, inc, tenYearsAgo) ==
    IF inc /\ getFirstDailyStartDate(rows, symbol) # 0
    THEN getNextDay(getLastDailyEndDate(rows, symbol))
    ELSE tenYearsAgo

\* the head of the loop over the symbols: the start date and
\* initializeIndicatorData(sym, maxPeriod), or the end of the loop;
\* tenYearsAgo is calculateStartDateFromDuration("10 Y")
NextSymbol(tenYearsAgo) ==
    /\ dpc = "symbol"
    /\ IF symIdx > Len(Symbols) \/ ~dailyRunning
       THEN /\ dpc' = "stop"
            /\ UNCHANGED <<indicators, day>>
       ELSE LET sym == Symbols[symIdx]
            IN  /\ day' = StartDay(dailyRows, sym, incremental, tenYearsAgo)
                /\ indicators' =
                      [indicators EXCEPT ![sym] =
                          initializeIndicatorData(
                              @, getRecentHistoricalData(dailyRows, sym, maxPeriod),
                              maxPeriod)]
                /\ dpc' = "day"
    /\ UNCHANGED <<dailyRunning, dailyQueue, dailyRows, dwpc, item, incremental,
                   symIdx, passes, observed, dailyAccepted, dailyWritten,
                   dailyFailures, rowsAfterFirst>>
    /\ UNCHANGED <<reqVars, outsideDaily>>

\* one turn of the loop of requestDailyData with a gateway that answers
\* before the wait ends: a closed day is passed over; on another day the
\* request, the bar received, storeDailyData on it; or the end of the loop
\* after the last day, endDay being getCurrentDate()
RequestDay(endDay) ==
    /\ dpc = "day"
    /\ IF day > endDay
       THEN /\ symIdx' = symIdx + 1
            /\ dpc' = "symbol"
            /\ UNCHANGED <<indicators, dailyQueue, day, observed, dailyAccepted,
                           requests, succeeded>>
       ELSE IF isMarketClosed(LocalTime(day))
       THEN /\ day' = day + 1
            /\ UNCHANGED <<indicators, dailyQueue, observed, dailyAccepted,
                           symIdx, dpc, requests, succeeded>>
       ELSE LET sym    == Symbols[symIdx]
                stored == storeDailyData(indicators[sym], sym, IBBar(sym, day))
            IN  /\ DailyQueueMutexFree
                /\ indicators' = [indicators EXCEPT ![sym] = stored.k]
                /\ dailyQueue' = dailyAddToQueue(dailyQueue, stored.queued)
                /\ dailyAccepted' = dailyAccepted \cup {stored.queued[1]}
                /\ observed' = [observed EXCEPT
                                   ![sym] = Append(@, CloseOf(sym, day))]
                /\ requests' = Append(requests, [symbol |-> sym, day |-> day])
                /\ succeeded' = succeeded \cup {[symbol |-> sym, day |-> day]}
                /\ day' = day + 1
                /\ UNCHANGED <<symIdx, dpc>>
    /\ UNCHANGED <<dailyRunning, dailyRows, dwpc, item, incremental, passes,
                   dailyWritten, dailyFailures, rowsAfterFirst>>
    /\ UNCHANGED <<client, waitVars, outsideDaily>>

\* stop() at the end of fetchAndProcessDailyData: running.store(false) and
\* the notifications
FetchStop ==
    /\ dpc = "stop"
    /\ dailyRunning' = FALSE
    /\ dpc' = "join"
    /\ UNCHANGED <<indicators, dailyQueue, dailyRows, dwpc, item, incremental,
                   symIdx, day, passes, observed, dailyAccepted, dailyWritten,
                   dailyFailures, rowsAfterFirst>>
    /\ UNCHANGED <<reqVars, outsideDaily>>

\* databaseThread.join() returns, the client is disconnected and released
\* unless another thread is in stop() already, and fetchAndProcessDailyData
\* returns
FetchReturn ==
    /\ dpc = "join"
    /\ dwpc = "done"
    /\ dpc' = "idle"
    /\ passes' = passes + 1
    /\ rowsAfterFirst' = IF passes = 0 THEN dailyRows ELSE rowsAfterFirst
    /\ IF spc = "idle"
       THEN client' = "null" /\ inflight' = <<>>
       ELSE UNCHANGED <<client, inflight>>
    /\ UNCHANGED <<dailyRunning, indicators, dailyQueue, dailyRows, dwpc, item,
                   incremental, symIdx, day, observed, dailyAccepted,
                   dailyWritten, dailyFailures>>
    /\ UNCHANGED <<retryCount, dataReceived, historicalDataBuffer, spc, stopAt,
                   crashed, requests, succeeded, outsideDaily>>

--------------------------------------------------------------------------
(***************************************************************************)
(* DailyDataFetcher: requestDailyData step by step, with the reader thread *)
(* delivering the answers of the gateway and another thread calling stop().*)
(***************************************************************************)
maxRetries == 3

coreUnchanged == <<dailyRunning, dailyRows, dwpc, item, incremental, passes,
                   dailyWritten, dailyFailures, rowsAfterFirst>>

\* one turn of the loop of requestDailyData over historicalDataBuffer: the
\* state after storeDailyData(symbol, data) returned stored
StoreOne(st, symbol, data, stored) ==
    [indicators |-> [st.indicators EXCEPT ![symbol] = stored.k],
     queue      |-> dailyAddToQueue(st.queue, stored.queued),
     accepted   |-> st.accepted \cup {stored.queued[1]},
     observed   |-> [st.observed EXCEPT ![symbol] = Append(@, data.close)]]

RECURSIVE StoreAll(_, _, _)
\* for (const auto& data : historicalDataBuffer) storeDailyData(symbol, data)
StoreAll(st, symbol, buffer) ==
    IF buffer = <<>> THEN st
    ELSE StoreAll(StoreOne(st, symbol, Head(buffer),
                           storeDailyData(st.indicators[symbol], symbol,
                                          Head(buffer))),
                  symbol, Tail(buffer))

\* the head of the loop over the days: the end of the loop, a closed day
\* passed over, or the entry into the retry loop
DayHead(endDay) ==
    /\ dpc = "day"
    /\ IF day > endDay
       THEN /\ symIdx' = symIdx + 1
            /\ dpc' = "symbol"
            /\ UNCHANGED <<day, retryCount>>
       ELSE IF isMarketClosed(LocalTime(day))
       THEN /\ day' = day + 1
            /\ UNCHANGED <<symIdx, dpc, retryCount>>
       ELSE /\ retryCount' = 0
            /\ dpc' = "request"
            /\ UNCHANGED <<symIdx, day>>
    /\ UNCHANGED <<indicators, dailyQueue, observed, dailyAccepted>>
    /\ UNCHANGED coreUnchanged
    /\ UNCHANGED <<client, dataReceived, historicalDataBuffer, inflight, spc,
                   stopAt, crashed, requests, succeeded, outsideDaily>>

\* client->reqHistoricalData(...): the gateway answers with the bar of the
\* day and the end of the data, or not at all; through a released client the
\* call is undefined and either ends the process or goes on
IssueRequest(answered, survives) ==
    /\ dpc = "request"
    /\ requests' = Append(requests, [symbol |-> Symbols[symIdx], day |-> day])
    /\ IF client = "null"
       THEN /\ crashed' = TRUE
            /\ dpc' = IF survives THEN "wait" ELSE "crashed"
            /\ UNCHANGED inflight
       ELSE /\ dpc' = "wait"
            /\ inflight' =
                  IF client = "connected" /\ answered
                  THEN inflight \o <<[kind |-> "bar", symbol |-> Symbols[symIdx],
                                      day |-> day],
                                     [kind |-> "end", symbol |-> Symbols[symIdx],
                                      day |-> day]>>
                  ELSE inflight
            /\ UNCHANGED crashed
    /\ UNCHANGED <<indicators, dailyQueue, observed, dailyAccepted, symIdx, day>>
    /\ UNCHANGED coreUnchanged
    /\ UNCHANGED <<client, retryCount, dataReceived, historicalDataBuffer, spc,
                   stopAt, succeeded, outsideDaily>>

\* retryCount++ and the next turn of the retry loop, or the day given up
AfterFailure ==
    /\ retryCount' = retryCount + 1
    /\ IF retryCount + 1 < maxRetries
       THEN dpc' = "request" /\ UNCHANGED day
       ELSE dpc' = "day" /\ day' = day + 1

\* waitForData returns false after 30 seconds without dataReceived
WaitTimeout ==
    /\ dpc = "wait"
    /\ ~dataReceived /\ dailyRunning
    /\ AfterFailure
    /\ UNCHANGED <<indicators, dailyQueue, observed, dailyAccepted, symIdx>>
    /\ UNCHANGED coreUnchanged
    /\ UNCHANGED <<client, dataReceived, historicalDataBuffer, inflight, spc,
                   stopAt, crashed, requests, succeeded, outsideDaily>>

\* the wait of waitForData ends on its predicate: the exception of a lost
\* connection, or true and the bars of the buffer stored
WaitReturn(survives) ==
    /\ dpc = "wait"
    /\ dataReceived \/ ~dailyRunning
    /\ IF client = "null" /\ ~survives
       THEN /\ crashed' = TRUE
            /\ dpc' = "crashed"
            /\ UNCHANGED <<indicators, dailyQueue, observed, dailyAccepted, day,
                           retryCount, dataReceived, historicalDataBuffer,
                           succeeded>>
       ELSE IF client # "connected"
       THEN /\ crashed' = (crashed \/ client = "null")
            /\ AfterFailure
            /\ UNCHANGED <<indicators, dailyQueue, observed, dailyAccepted,
                           dataReceived, historicalDataBuffer, succeeded>>
       ELSE \E st \in {StoreAll([indicators |-> indicators, queue |-> dailyQueue,
                                  accepted |-> dailyAccepted,
                                  observed |-> observed],
                                 Symbols[symIdx], historicalDataBuffer)} :
                /\ DailyQueueMutexFree
                /\ dataReceived' = FALSE
                /\ succeeded' =
                      succeeded \cup {[symbol |-> Symbols[symIdx], day |-> day]}
                /\ indicators' = st.indicators
                /\ dailyQueue' = st.queue
                /\ dailyAccepted' = st.accepted
                /\ observed' = st.observed
                /\ historicalDataBuffer' = <<>>
                /\ day' = day + 1
                /\ dpc' = "day"
                /\ UNCHANGED <<retryCount, crashed>>
    /\ UNCHANGED symIdx
    /\ UNCHANGED coreUnchanged
    /\ UNCHANGED <<client, inflight, spc, stopAt, requests, outsideDaily>>

\* the reader thread runs while (running.load() && client->isConnected())
ReaderRuns == dailyRunning /\ client = "connected"

\* EWrapper::historicalData on the reader thread
historicalData ==
    /\ ReaderRuns
    /\ inflight # <<>> /\ Head(inflight).kind = "bar"
    /\ historicalDataBuffer' =
          Append(historicalDataBuffer,
                 IBBar(Head(inflight).symbol, Head(inflight).day))
    /\ inflight' = Tail(inflight)
    /\ UNCHANGED dailyVars
    /\ UNCHANGED <<client, retryCount, dataReceived, spc, stopAt, crashed,
                   requests, succeeded, outsideDaily>>

\* EWrapper::historicalDataEnd on the reader thread
historicalDataEnd ==
    /\ ReaderRuns
    /\ inflight # <<>> /\ Head(inflight).kind = "end"
    /\ dataReceived' = TRUE
    /\ inflight' = Tail(inflight)
    /\ UNCHANGED dailyVars
    /\ UNCHANGED <<client, retryCount, historicalDataBuffer, spc, stopAt, crashed,
                   requests, succeeded, outsideDaily>>

\* EWrapper::error on the reader thread with an error code other than 509
\* and 1100: dataReceived = true and cv.notify_one()
dailyError ==
    /\ ReaderRuns
    /\ ~dataReceived
    /\ dataReceived' = TRUE
    /\ UNCHANGED dailyVars
    /\ UNCHANGED <<client, retryCount, historicalDataBuffer, inflight, spc,
                   stopAt, crashed, requests, succeeded, outsideDaily>>

\* stop() called by another thread while fetchAndProcessDailyData is in its
\* loops: running.store(false) and the notifications
StopCall ==
    /\ spc = "idle"
    /\ dailyRunning
    /\ dpc \in {"symbol", "day", "request", "wait"}
    /\ dailyRunning' = FALSE
    /\ stopAt' = Len(requests)
    /\ spc' = "join"
    /\ UNCHANGED <<indicators, dailyQueue, dailyRows, dpc, dwpc, item, incremental,
                   symIdx, day, passes, observed, dailyAccepted, dailyWritten,
                   dailyFailures, rowsAfterFirst>>
    /\ UNCHANGED <<client, retryCount, dataReceived, historicalDataBuffer,
                   inflight, crashed, requests, succeeded, outsideDaily>>

\* stop(): databaseThread and readerThread joined, client->eDisconnect()
StopDisconnect ==
    /\ spc = "join"
    /\ dwpc = "done"
    /\ client' = IF client = "connected" THEN "disconnected" ELSE client
    /\ spc' = "reset"
    /\ UNCHANGED dailyVars
    /\ UNCHANGED <<retryCount, dataReceived, historicalDataBuffer, inflight,
                   stopAt, crashed, requests, succeeded, outsideDaily>>

\* stop(): client.reset()
StopReset ==
    /\ spc = "reset"
    /\ client' = "null"
    /\ inflight' = <<>>
    /\ spc' = "done"
    /\ UNCHANGED dailyVars
    /\ UNCHANGED <<retryCount, dataReceived, historicalDataBuffer, stopAt,
                   crashed, requests, succeeded, outsideDaily>>

--------------------------------------------------------------------------
(***************************************************************************)
(* connectToIB of DailyDataFetcher and of RealTimeData.                    *)
(***************************************************************************)
connOthers == <<rtVars, dailyVars, reqVars, sessVars, supVars, raceVars, stopVars>>

\* the head of connectToIB(maxRetries, retryDelayMs), called by from
ConnectEnter(class, maxRetriesArg, from) ==
    /\ connPc = "idle"
    /\ connClass' = class
    /\ connMax' = maxRetriesArg
    /\ attempt' = 0
    /\ connResult' = "none"
    /\ eConnects' = 0 /\ sleeps' = 0
    /\ caller' = from
    /\ connPc' = IF maxRetriesArg > 0 THEN "attempt" ELSE "done"
    /\ UNCHANGED <<connClient, connReader, connSignal, m_nextValidId,
                   readerThreads>>

\* connectToIB(maxRetries, retryDelayMs) is called on an object that is not
\* connected
ConnectCall(class, maxRetriesArg, from) ==
    /\ connClient # "connected"
    /\ ConnectEnter(class, maxRetriesArg, from)
    /\ UNCHANGED connOthers

\* the catch block: the sleep and the next attempt, or the cleanup of the
\* last attempt; behind the loop connectToIB returns false
Caught ==
    IF attempt < connMax - 1
    THEN /\ sleeps' = sleeps + 1
         /\ attempt' = attempt + 1
         /\ connPc' = "attempt"
         /\ connSignal' = TRUE
         /\ connClient' = IF connClient = "null" THEN "disconnected"
                          ELSE connClient
         /\ UNCHANGED <<connReader, connResult>>
    ELSE /\ connClient' = "null"
         /\ connReader' = FALSE
         /\ connSignal' = FALSE
         /\ attempt' = attempt + 1
         /\ connResult' = "false"
         /\ connPc' = "done"
         /\ UNCHANGED sleeps

\* one turn of the loop up to the wait: osSignal, client, eConnect, which
\* fails on a client that is connected already, reader and readerThread;
\* RealTimeData::connectToIB returns true here.  The new std::thread runs
\* before it is assigned to readerThread, and the assignment to a thread
\* that is still joinable calls std::terminate
Attempt(ok) ==
    /\ connPc = "attempt"
    /\ eConnects' = eConnects + 1
    /\ IF ok /\ connClient # "connected"
       THEN /\ connSignal' = TRUE
            /\ connClient' = "connected"
            /\ connReader' = TRUE
            /\ readerThreads' = readerThreads + 1
            /\ IF readerThreads > 0
               THEN connPc' = "terminated" /\ UNCHANGED connResult
               ELSE IF connClass = "realtime"
               THEN connResult' = "true" /\ connPc' = "done"
               ELSE connPc' = "awaitId" /\ UNCHANGED connResult
            /\ UNCHANGED <<attempt, sleeps>>
       ELSE Caught /\ UNCHANGED readerThreads
    /\ UNCHANGED <<connClass, connMax, m_nextValidId, caller>>
    /\ UNCHANGED connOthers

\* EWrapper::nextValidId on the reader thread
nextValidId ==
    /\ connClient = "connected"
    /\ m_nextValidId = 0
    /\ m_nextValidId' = 1
    /\ UNCHANGED <<connPc, connClass, connMax, attempt, connClient, connReader,
                   connSignal, connResult, eConnects, sleeps, caller,
                   readerThreads>>
    /\ UNCHANGED connOthers

\* nextValidIdCV.wait_for returns true: connectToIB returns true
AwaitReturn ==
    /\ connPc = "awaitId"
    /\ m_nextValidId > 0
    /\ connResult' = "true"
    /\ connPc' = "done"
    /\ UNCHANGED <<connClass, connMax, attempt, connClient, connReader,
                   connSignal, m_nextValidId, eConnects, sleeps, caller,
                   readerThreads>>
    /\ UNCHANGED connOthers

\* nextValidIdCV.wait_for times out after 30 seconds: the next turn of the
\* loop, or false returned behind the loop
AwaitTimeout ==
    /\ connPc = "awaitId"
    /\ m_nextValidId = 0
    /\ attempt' = attempt + 1
    /\ IF attempt + 1 < connMax
       THEN connPc' = "attempt" /\ UNCHANGED connResult
       ELSE connPc' = "done" /\ connResult' = "false"
    /\ UNCHANGED <<connClass, connMax, connClient, connReader, connSignal,
                   m_nextValidId, eConnects, sleeps, caller, readerThreads>>
    /\ UNCHANGED connOthers

\* the caller has the result; the gateway may have dropped the connection
ConnectDone(dropped) ==
    /\ connPc = "done"
    /\ connPc' = "idle"
    /\ connClient' = IF dropped /\ connClient = "connected"
                     THEN "disconnected" ELSE connClient
    /\ UNCHANGED <<connClass, connMax, attempt, connReader, connSignal,
                   m_nextValidId, connResult, eConnects, sleeps, caller,
                   readerThreads>>
    /\ UNCHANGED connOthers

\* stop() of either class on a session at rest: readerThread is joined, the
\* socket disconnected, client and osSignal released; reader is stopped but
\* not released, and m_nextValidId keeps its value
ConnStop ==
    /\ connPc = "idle"
    /\ connClient # "null" \/ readerThreads > 0
    /\ readerThreads' = 0
    /\ connClient' = "null"
    /\ connSignal' = FALSE
    /\ UNCHANGED <<connPc, connClass, connMax, attempt, connReader,
                   m_nextValidId, connResult, eConnects, sleeps, caller>>
    /\ UNCHANGED connOthers

\* RealTimeData::monitorDataFlow on a started aggregator: the connection is
\* lost and connectToIB(maxRetries, retryDelayMs) is called, cvMutex unlocked
monitorReconnect ==
    /\ connClass = "realtime"
    /\ connResult = "true"
    /\ readerThreads > 0
    /\ ConnectCall("realtime", 3, "monitor")

\* DailyDataFetcher::error with code 509 or 1100, on the reader thread
\* inside reader->processMsgs(): under the lock_guard of cvMutex
\* dataReceived = true, cv.notify_one() and connectToIB(); the socket may
\* be closed already when the reader delivers the error
errorReconnect ==
    /\ connClass = "daily"
    /\ connClient \in {"connected", "disconnected"}
    /\ readerThreads > 0
    /\ dataReceived' = TRUE
    /\ ConnectEnter("daily", 3, "error")
    /\ UNCHANGED <<rtVars, dailyVars, sessVars, supVars, raceVars, stopVars>>
    /\ UNCHANGED <<client, retryCount, historicalDataBuffer, inflight, spc,
                   stopAt, crashed, requests, succeeded>>

\* what start() and stop() of RealTimeData leave alone
startOthers == <<dailyVars, reqVars, sessVars, supVars, raceVars, stopVars>>
startData == <<l1Prices, l1Volumes, rawL2Data, l1PricesBuffer, l1VolumesBuffer,
               rawL2DataBuffer, historicalClosePrices, historicalVolumes,
               l1Data, l2Data, features, minute, minuteL1P, minuteL1V,
               minuteL2, outcome>>

\* RealTimeData::start() on an aggregator that is not running:
\* running.store(true) and the call of connectToIB()
StartCall ==
    /\ ~running
    /\ running' = TRUE
    /\ ConnectEnter("realtime", 3, "start")
    /\ UNCHANGED <<shm, ppc, wpc, startData, queueVars, startOthers>>

\* RealTimeData::start() on a running aggregator: true is returned and
\* nothing is touched
StartAgain ==
    /\ running
    /\ connPc = "idle"
    /\ UNCHANGED vars

\* start(): connectToIB() returned false; running.store(false), return false
StartConnectFailed ==
    /\ connPc = "done" /\ caller = "start" /\ connResult = "false"
    /\ running' = FALSE
    /\ connPc' = "idle"
    /\ UNCHANGED <<connClass, connMax, attempt, connClient, connReader,
                   connSignal, m_nextValidId, connResult, eConnects, sleeps,
                   caller, readerThreads>>
    /\ UNCHANGED <<shm, ppc, wpc, startData, queueVars, startOthers>>

\* start(): connectToIB() returned true; the try block with
\* initializeSharedMemory, requestData and the three std::thread, which
\* returns true, and its catch block, which stores running = false and
\* returns false.  threw is where the exception is thrown: "shm" in
\* initializeSharedMemory, "thread" in the second std::thread, after
\* processDataThread has been started
StartInit(threw) ==
    /\ connPc = "done" /\ caller = "start" /\ connResult = "true"
    /\ connPc' = "idle"
    /\ running' = (threw = "none")
    /\ shm' = IF threw = "shm" THEN shm ELSE [mapped |-> TRUE, data |-> <<>>]
    /\ ppc' = IF threw = "shm" THEN ppc ELSE "wait"
    /\ wpc' = IF threw = "none" THEN "loop" ELSE wpc
    /\ UNCHANGED <<connClass, connMax, attempt, connClient, connReader,
                   connSignal, m_nextValidId, connResult, eConnects, sleeps,
                   caller, readerThreads>>
    /\ UNCHANGED <<startData, queueVars, startOthers>>

\* RealTimeData::stop() while running, as one step: running.store(false),
\* eDisconnect, joinThreads, the shared memory removed, client and osSignal
\* released
StartStop ==
    /\ running
    /\ connPc = "idle"
    /\ running' = FALSE
    /\ ppc' = "off" /\ wpc' = "off"
    /\ shm' = [mapped |-> FALSE, data |-> <<>>]
    /\ readerThreads' = 0
    /\ connClient' = "null"
    /\ connSignal' = FALSE
    /\ UNCHANGED <<connPc, connClass, connMax, attempt, connReader,
                   m_nextValidId, connResult, eConnects, sleeps, caller>>
    /\ UNCHANGED <<startData, queueVars, startOthers>>

\* the mutexes the thread that calls connectToIB holds at the call: the
\* reader thread holds readerMutex around processMsgs, and the error
\* callback of DailyDataFetcher holds cvMutex on top of it
callerLocks(from) ==
    IF from = "error" THEN {"readerMutex", "cvMutex"} ELSE {}

\* the mutexes held by the thread inside connectToIB while it is in
\* eConnect, in a sleep or in the wait for NextValidId: clientMutex from
\* the first line to the return, nextValidIdMutex being released by the wait
heldInConnect ==
    IF connPc \in {"attempt", "awaitId"}
    THEN callerLocks(caller) \cup {"clientMutex"}
    ELSE {}

\* the mutex held by the writer thread of RealTimeData during the insert
heldInWrite == IF wpc = "drain" /\ dataQueue # <<>> THEN {"queueMutex"} ELSE {}

--------------------------------------------------------------------------
(***************************************************************************)
(* main: the two threads of the supervisor.  The realtime aggregator runs  *)
(* while rtPc = "collecting", a call of fetchAndProcessDailyData is in     *)
(* progress while histPc = "fetching".                                     *)
(***************************************************************************)
supOthers == <<rtVars, dailyVars, reqVars, sessVars, connVars, raceVars, stopVars>>

\* isMarketOpenTime: 9 <= tm_hour < 16 and not a Saturday or a Sunday
isMarketOpenTime(t) ==
    LET tm_hour == t % 24
        tm_wday == (5 + t \div 24) % 7
    IN  (tm_hour >= 9 /\ tm_hour < 16) /\ ~(tm_wday = 0 \/ tm_wday = 6)

\* an hour passes
Tick ==
    /\ now' = now + 1
    /\ UNCHANGED <<rtPc, histPc, wakeAt>>
    /\ UNCHANGED supOthers

\* realTimeDataThread: the market is open and dataCollector->start() is
\* called; on false the loop starts again
RtStart(ok) ==
    /\ rtPc = "waitOpen"
    /\ isMarketOpenTime(now)
    /\ rtPc' = IF ok THEN "collecting" ELSE "waitOpen"
    /\ UNCHANGED <<now, histPc, wakeAt>>
    /\ UNCHANGED supOthers

\* realTimeDataThread: the market has closed and dataCollector->stop() is
\* called
RtStop ==
    /\ rtPc = "collecting"
    /\ ~isMarketOpenTime(now)
    /\ rtPc' = "waitOpen"
    /\ UNCHANGED <<now, histPc, wakeAt>>
    /\ UNCHANGED supOthers

\* historicalDataThread: the head of its loop
HistCheck ==
    /\ histPc = "check"
    /\ histPc' = IF isMarketOpenTime(now) THEN "paused" ELSE "fetching"
    /\ UNCHANGED <<now, rtPc, wakeAt>>
    /\ UNCHANGED supOthers

\* historicalDataThread: fetchAndProcessDailyData returns, and an hour of
\* sleep begins; on false the loop starts again
HistReturn(ok) ==
    /\ histPc = "fetching"
    /\ histPc' = IF ok THEN "sleeping" ELSE "check"
    /\ wakeAt' = IF ok THEN now + 1 ELSE wakeAt
    /\ UNCHANGED <<now, rtPc>>
    /\ UNCHANGED supOthers

\* historicalDataThread: the hour of sleep is over
HistWake ==
    /\ histPc = "sleeping"
    /\ now >= wakeAt
    /\ histPc' = "check"
    /\ UNCHANGED <<now, rtPc, wakeAt>>
    /\ UNCHANGED supOthers

\* historicalDataThread: the market it slept through has closed
HistResume ==
    /\ histPc = "paused"
    /\ ~isMarketOpenTime(now)
    /\ histPc' = "check"
    /\ UNCHANGED <<now, rtPc, wakeAt>>
    /\ UNCHANGED supOthers

--------------------------------------------------------------------------
(***************************************************************************)
(* Specifications of the realtime aggregator.                              *)
(***************************************************************************)
InitSession ==
    /\ backoffAttempt = 0
    /\ delays = <<>>
    /\ closing = "idle" /\ stopper = "none"
    /\ reconnecting = FALSE

InitConnect ==
    /\ connPc = "idle"
    /\ connClass = "daily"
    /\ connMax = 1
    /\ attempt = 0
    /\ connClient = "null"
    /\ connReader = FALSE /\ connSignal = FALSE
    /\ m_nextValidId = 0
    /\ connResult = "none"
    /\ eConnects = 0 /\ sleeps = 0
    /\ caller = "none"
    /\ readerThreads = 0

InitSupervisor ==
    /\ now = 0
    /\ rtPc = "waitOpen"
    /\ histPc = "check"
    /\ wakeAt = 0

InitRace == cut = EmptyMap

InitStop ==
    /\ stopPc = [t \in StopThreads |-> "out"]
    /\ teardowns = 0

Init ==
    /\ InitRealTime /\ InitDaily /\ InitSession /\ InitConnect
    /\ InitSupervisor /\ InitRace /\ InitStop

\* the steps of the processData thread inside aggregateMinuteData
RolloverStep ==
    \/ clearTemporaryData
    \/ swapBuffers
    \/ moveDeletedItemsToBuffer
    \/ Aggregate
    \/ FinishMinute

\* Spec: every interleaving of the callbacks with the steps of the rollover,
\* over one price, one size and one book position.  The writer is parked:
\* its insert step needs a bar in the queue.
Next ==
    \/ Start
    \/ Stop
    \/ Len(l1Prices) < MaxTicks /\ tickPrice(1)
    \/ Len(l1Volumes) < MaxTicks /\ tickSize(1)
    \/ \E op \in {0, 2} :
          /\ L2Count(DepthUpdate(rawL2Data, 0, op, 0, 100, 30)) <= MaxL2Entries
          /\ updateMktDepth(0, op, 0, 100, 30)
    \/ minute < MaxMinutes /\ ProcessMinute
    \/ ProcessExit
    \/ RolloverStep

Spec == Init /\ [][Next]_vars

\* SpecL1: the L1 side with several prices and sizes; a callback arrives
\* between two rollovers
L1Prices == {1, 2, 3}
L1Sizes == {1, 2}

NextL1 ==
    \/ Start
    \/ Stop
    \/ \E p \in L1Prices :
          ppc = "wait" /\ Len(l1Prices) < MaxL1Ticks /\ tickPrice(p)
    \/ \E v \in L1Sizes :
          ppc = "wait" /\ Len(l1Volumes) < MaxL1Ticks /\ tickSize(v)
    \/ ppc = "wait" /\ L2Count(rawL2Data) < 1 /\ updateMktDepth(0, 0, 0, 100, 30)
    \/ minute < MaxL1Minutes /\ ProcessMinute
    \/ ProcessExit
    \/ RolloverStep

SpecL1 == Init /\ [][NextL1]_vars

\* SpecL2: the L2 side with a bid and an ask quote at two positions, and one
\* L1 tick; a callback arrives between two rollovers
Positions == {0, 1}
Operations == {0, 1, 2}
L2Quotes == {<<0, 100, 30>>, <<1, 101, 40>>}

NextL2 ==
    \/ Start
    \/ Stop
    \/ ppc = "wait" /\ Len(l1Prices) < 1 /\ tickPrice(1)
    \/ ppc = "wait" /\ Len(l1Volumes) < 1 /\ tickSize(1)
    \/ \E pos \in Positions, op \in Operations, q \in L2Quotes :
          /\ ppc = "wait"
          /\ L2Count(DepthUpdate(rawL2Data, pos, op, q[1], q[2], q[3]))
                <= MaxBookEntries
          /\ updateMktDepth(pos, op, q[1], q[2], q[3])
    \/ minute < MaxL2Minutes /\ ProcessMinute
    \/ ProcessExit
    \/ RolloverStep

SpecL2 == Init /\ [][NextL2]_vars

\* SpecQueue: the persistence queue with its producer and its writer
NextQueue ==
    \/ Start
    \/ Stop
    \/ ProducerMinute
    \/ ProducerEnqueue
    \/ ProcessExit
    \/ WriterLoop
    \/ WriterWait
    \/ \E ok \in BOOLEAN : WriterInsert(ok)
    \/ WriterDrainEnd
    \/ StopReturn

SpecQueue == Init /\ [][NextQueue]_vars

\* SpecDrain: the persistence queue with a writer thread that is scheduled
\* again and again and a database whose inserts fail MaxFailures times at
\* most
NextDrain ==
    \/ Start
    \/ Stop
    \/ StopReturn
    \/ ProducerMinute
    \/ ProducerEnqueue
    \/ ProcessExit
    \/ WriterLoop
    \/ WriterWait
    \/ WriterBlock
    \/ \E ok \in BOOLEAN : WriterInsert(ok)
    \/ WriterDrainEnd

SpecDrain ==
    /\ Init /\ [][NextDrain]_vars
    /\ WF_vars(WriterLoop) /\ WF_vars(WriterWait) /\ WF_vars(WriterDrainEnd)
    /\ WF_vars(\E ok \in BOOLEAN : WriterInsert(ok))

\* SpecClose: the aggregator with its writer asleep on queueCV, stopped by
\* the supervisor or by the reader thread on a lost connection
NextClose ==
    \/ Start
    \/ Stop
    \/ StopReturn
    \/ error1100
    \/ SelfJoin
    \/ Len(l1Prices) < MaxTicks /\ tickPrice(1)
    \/ Len(l1Volumes) < MaxTicks /\ tickSize(1)
    \/ ProducerMinute
    \/ ProducerEnqueue
    \/ ProcessExit
    \/ WriterLoop
    \/ WriterWait
    \/ WriterBlock
    \/ WriterInsert(TRUE)
    \/ WriterDrainEnd

SpecClose == Init /\ [][NextClose]_vars

\* SpecBackoff: rate-limit errors between the ticks of a running aggregator
NextBackoff ==
    \/ Start
    \/ Stop
    \/ Len(l1Prices) < MaxTicks /\ tickPrice(1)
    \/ Len(l1Volumes) < MaxTicks /\ tickSize(1)
    \/ backoffAttempt < MaxBackoffs /\ handleRateLimitExceeded

SpecBackoff == Init /\ [][NextBackoff]_vars

--------------------------------------------------------------------------
(***************************************************************************)
(* Specifications of the daily backfill.                                   *)
(***************************************************************************)
\* SpecDaily: calls of fetchAndProcessDailyData over a few days, with a
\* writer whose upserts can fail
NextDaily ==
    \/ \E inc \in BOOLEAN : passes < MaxPasses /\ FetchBegin(inc)
    \/ FetchRun
    \/ NextSymbol(1)
    \/ RequestDay(MaxDays)
    \/ FetchStop
    \/ FetchReturn
    \/ DailyWriterLoop
    \/ DailyWriterWait
    \/ DailyWriterPop
    \/ \E ok \in BOOLEAN :
          (ok \/ dailyFailures < MaxDailyFailures) /\ DailyWriterInsert(ok)

SpecDaily == Init /\ [][NextDaily]_vars

\* SpecKernel: one call of fetchAndProcessDailyData on a new fetcher and an
\* empty database, over enough days to fill every window of the kernel, with
\* a writer that keeps up with the requests
NextKernel ==
    \/ passes < 1 /\ FetchBegin(FALSE)
    \/ FetchRun
    \/ NextSymbol(1)
    \/ Len(dailyQueue) < MaxBacklog /\ RequestDay(MaxKernelDay)
    \/ FetchStop
    \/ FetchReturn
    \/ DailyWriterLoop
    \/ DailyWriterWait
    \/ DailyWriterPop
    \/ DailyWriterInsert(TRUE)

SpecKernel == Init /\ [][NextKernel]_vars

\* SpecCalendar: one call of fetchAndProcessDailyData whose ten-year range
\* is cut to the days from a Saturday to the end of a year, on an empty
\* database, with a writer that keeps up with the requests
CalendarStart == 5

NextCalendar ==
    \/ passes < 1 /\ FetchBegin(FALSE)
    \/ FetchRun
    \/ NextSymbol(CalendarStart)
    \/ Len(dailyQueue) < MaxBacklog /\ RequestDay(MaxCalendarDay)
    \/ FetchStop
    \/ FetchReturn
    \/ DailyWriterLoop
    \/ DailyWriterWait
    \/ DailyWriterPop
    \/ DailyWriterInsert(TRUE)

SpecCalendar == Init /\ [][NextCalendar]_vars

\* SpecResume: calls of fetchAndProcessDailyData, each a day after the one
\* before: getCurrentDate() and calculateStartDateFromDuration("10 Y") move
\* on with the clock
TenYearsAgo(pass) == 1 + pass
Today(pass) == MaxResumeDays + pass

NextResume ==
    \/ \E inc \in BOOLEAN : passes < MaxPasses /\ FetchBegin(inc)
    \/ FetchRun
    \/ NextSymbol(TenYearsAgo(passes))
    \/ Len(dailyQueue) < MaxBacklog /\ RequestDay(Today(passes))
    \/ FetchStop
    \/ FetchReturn
    \/ DailyWriterLoop
    \/ DailyWriterWait
    \/ DailyWriterPop
    \/ DailyWriterInsert(TRUE)

SpecResume == Init /\ [][NextResume]_vars

\* SpecRequest: one call of fetchAndProcessDailyData with a gateway whose
\* answers can come after the wait for them has timed out
Timeouts ==
    Len(requests) - Cardinality(succeeded) - (IF dpc = "wait" THEN 1 ELSE 0)

NextRequest ==
    \/ passes < 1 /\ FetchBegin(FALSE)
    \/ FetchRun
    \/ NextSymbol(1)
    \/ DayHead(MaxRequestDay)
    \/ IssueRequest(TRUE, TRUE)
    \/ Timeouts < MaxTimeouts /\ WaitTimeout
    \/ Len(dailyQueue) < MaxBacklog /\ WaitReturn(TRUE)
    \/ historicalData
    \/ historicalDataEnd
    \/ FetchStop
    \/ FetchReturn
    \/ DailyWriterLoop
    \/ DailyWriterWait
    \/ DailyWriterPop
    \/ DailyWriterInsert(TRUE)

SpecRequest == Init /\ [][NextRequest]_vars

\* SpecStop: one call of fetchAndProcessDailyData with a gateway that
\* answers, and a thread that calls stop() during the call
NextStop ==
    \/ passes < 1 /\ FetchBegin(FALSE)
    \/ FetchRun
    \/ NextSymbol(1)
    \/ DayHead(MaxRequestDay)
    \/ \E survives \in BOOLEAN : IssueRequest(TRUE, survives)
    \/ \E survives \in BOOLEAN :
          Len(dailyQueue) < MaxBacklog /\ WaitReturn(survives)
    \/ historicalData
    \/ historicalDataEnd
    \/ StopCall
    \/ StopDisconnect
    \/ StopReset
    \/ FetchStop
    \/ FetchReturn
    \/ DailyWriterLoop
    \/ DailyWriterWait
    \/ DailyWriterPop
    \/ DailyWriterInsert(TRUE)

SpecStop == Init /\ [][NextStop]_vars

\* SpecRace: the callbacks of the reader thread, which take no lock, against
\* the steps of moveDeletedItemsToBuffer
NextRace ==
    \/ Start
    \/ Stop
    \/ Len(l1Prices) < 1 /\ tickPrice(1)
    \/ Len(l1Volumes) < 1 /\ tickSize(1)
    \/ \E op \in Operations, q \in L2Quotes :
          /\ L2Count(DepthUpdate(rawL2Data, 0, op, q[1], q[2], q[3]))
                <= MaxRaceEntries
          /\ updateMktDepth(0, op, q[1], q[2], q[3])
    \/ minute < MaxRaceMinutes /\ ProcessMinute
    \/ ProcessExit
    \/ clearTemporaryData
    \/ swapBuffers
    \/ \E kept \in BOOLEAN : MovePartition(kept)
    \/ \E survives \in BOOLEAN : MoveErase(survives)
    \/ Aggregate
    \/ FinishMinute

SpecRace == Init /\ [][NextRace]_vars

\* SpecSupervisor: the two threads of main from a Friday to a Monday
NextSupervisor ==
    \/ now < MaxHours /\ Tick
    \/ \E ok \in BOOLEAN : RtStart(ok)
    \/ RtStop
    \/ HistCheck
    \/ \E ok \in BOOLEAN : HistReturn(ok)
    \/ HistWake
    \/ HistResume

SpecSupervisor == Init /\ [][NextSupervisor]_vars

\* SpecConnect: calls of connectToIB of either class, with a gateway that
\* may refuse the connection, keep NextValidId back, or drop the connection
MaxRetriesArgs == 1..3

NextConnect ==
    \/ \E class \in {"daily", "realtime"}, n \in MaxRetriesArgs :
          ConnectCall(class, n, "start")
    \/ \E ok \in BOOLEAN : Attempt(ok)
    \/ nextValidId
    \/ AwaitReturn
    \/ AwaitTimeout
    \/ \E dropped \in BOOLEAN : ConnectDone(dropped)

SpecConnect == Init /\ [][NextConnect]_vars

--------------------------------------------------------------------------
(***************************************************************************)
(* Properties of the persistence queue (SpecQueue).                        *)
(***************************************************************************)
InSeq(x, s) == \E i \in 1..Len(s) : s[i] = x

\* both threads of the aggregator have ended: stop() has returned
Shutdown == ~running /\ ppc = "done" /\ wpc = "done"

\* C1: the rows of the database followed by the bars still queued are the
\* bars accepted by addToQueue in the order they were accepted: inserts
\* follow the enqueue order, and a failed insert leaves its bar at the head
\* with no newer bar inserted before it.
C1_QueueFifo ==
    /\ realtimeRows \o dataQueue = accepted
    /\ \A i, j \in 1..Len(realtimeRows) :
          i < j => realtimeRows[i].datetime < realtimeRows[j].datetime

\* an insert failed, two bars were inserted after all, a third one waits
C1_Witness ==
    /\ failures > 0
    /\ Len(realtimeRows) >= 2
    /\ dataQueue # <<>>

\* C2: whatever inserts fail, an accepted bar is in the database or in the
\* queue, and once the aggregator has shut down it is in the database or at
\* the head of the queue.
C2_NoRecordDropped ==
    \A i \in 1..Len(accepted) :
        /\ InSeq(accepted[i], realtimeRows) \/ InSeq(accepted[i], dataQueue)
        /\ Shutdown =>
              \/ InSeq(accepted[i], realtimeRows)
              \/ dataQueue # <<>> /\ accepted[i] = Head(dataQueue)

\* shut down after a failed insert, with a bar in the database and one that
\* was enqueued after the writer ended
C2_Witness ==
    /\ Shutdown
    /\ failures > 0
    /\ realtimeRows # <<>>
    /\ dataQueue # <<>>

--------------------------------------------------------------------------
(***************************************************************************)
(* Properties of the minute rollover.                                      *)
(***************************************************************************)
\* C4: the L1 record built by a rollover for a minute with L1 ticks has
\* low <= open <= high and low <= close <= high, its open is the first and
\* its close the last L1 price of the minute, its high and low are the
\* largest and the smallest, and its volume is the sum of the minute's L1
\* sizes.
C4_BarL1 ==
    ppc = "finish" =>
        LET o == l1Data.Open.val
            h == l1Data.High.val
            l == l1Data.Low.val
            c == l1Data.Close.val
        IN  /\ minuteL1P # <<>>
            /\ l <= o /\ o <= h
            /\ l <= c /\ c <= h
            /\ o = minuteL1P[1]
            /\ c = minuteL1P[Len(minuteL1P)]
            /\ \A i \in 1..Len(minuteL1P) : l <= minuteL1P[i] /\ minuteL1P[i] <= h
            /\ InSeq(h, minuteL1P) /\ InSeq(l, minuteL1P)
            /\ l1Data.Volume.val = SumSeq(minuteL1V)

\* a record built from two different prices and two sizes
C4_Witness ==
    /\ ppc = "finish"
    /\ Len(minuteL1P) = 2 /\ minuteL1P[1] > minuteL1P[2]
    /\ Len(minuteL1V) = 2
    /\ l1Data.High.val > l1Data.Low.val
    /\ l1Data.Close.val = l1Data.Low.val

CompleteRolloverEnded == ppc = "wait" /\ outcome \in {"emitted", "exception"}

\* C6: after a rollover that found the live L1 prices, the live L1 sizes and
\* the live book non-empty, one bar of that minute has been enqueued, shared
\* memory holds its serialization, and the frozen buffers are empty.
C6_CompleteRolloverEmits ==
    CompleteRolloverEnded =>
        /\ accepted # <<>>
        /\ accepted[Len(accepted)].datetime = minute
        /\ \A i \in 1..(Len(accepted) - 1) : accepted[i].datetime < minute
        /\ shm.data = createCombinedJson(accepted[Len(accepted)])
        /\ l1PricesBuffer = <<>> /\ l1VolumesBuffer = <<>>
        /\ rawL2DataBuffer = EmptyMap

VolumeSeq(es) == [i \in 1..Len(es) |-> es[i].volume]

\* the volumes of a histogram, bucket by bucket
BucketVolumes(hist) ==
    [i \in 1..Len(hist) |-> hist[i].BuyVolume + hist[i].SellVolume]

\* C7: the histogram built by a rollover counts every non-deleted event of
\* the minute in one bucket: it has 20 buckets, none negative, and the bucket
\* volumes add up to the volumes of the events.
C7_HistogramConservesVolume ==
    ppc = "finish" =>
        /\ \A i \in 1..Len(l2Data) :
              l2Data[i].BuyVolume >= 0 /\ l2Data[i].SellVolume >= 0
        /\ SumSeq(BucketVolumes(l2Data)) = SumSeq(VolumeSeq(minuteL2))

\* C8: the buy_sell_ratio built by a rollover is the Buy volume over the Sell
\* volume of the non-deleted entries of the minute, 0 when the Sell volume
\* is 0, and the depth_change is the Buy volume minus the Sell volume.
C8_DepthFeatures ==
    ppc = "finish" =>
        LET buy  == SideVolume(minuteL2, TRUE)
            sell == SideVolume(minuteL2, FALSE)
        IN  /\ features.BuySellRatio = IF sell = 0 THEN <<0, 1>> ELSE Frac(buy, sell)
            /\ features.DepthChange = buy - sell

--------------------------------------------------------------------------
(***************************************************************************)
(* Properties of the daily backfill.                                       *)
(***************************************************************************)
\* C3: a daily bar accepted by addToQueue is in the queue, in the hands of
\* the writer, or written: a failed upsert puts it back and loses nothing.
C3_DailyBarKeptOnFailure ==
    \A b \in dailyAccepted :
        \/ InSeq(b, dailyQueue)
        \/ item = <<b>>
        \/ b \in dailyWritten

\* the days from..to on which the market trades
OpenDays(from, to) == {d \in from..to : ~isMarketClosed(LocalTime(d))}

\* C9: on a new fetcher, the sma stored with the n-th observation of a
\* symbol is the mean of its last 20 closes once n >= maxPeriod, and the
\* close itself while n < 20.
C9_SmaIsWindowMean ==
    \A b \in dailyAccepted :
        LET closes == observed[b.data.symbol]
            n      == Cardinality(OpenDays(1, b.date))
        IN  /\ n >= maxPeriod =>
                  b.data.sma = Frac(SumSeq(SubSeq(closes, n - smaPeriod + 1, n)),
                                    smaPeriod)
            /\ n < smaPeriod => b.data.sma = Num(b.data.close)

\* daily_data holds a row of this date and symbol
HasRow(rows, date, symbol) ==
    \E q \in DOMAIN rows : rows[q].date = date /\ rows[q].data.symbol = symbol

\* C10: with no failed upsert, every written (date, symbol) has its row, so
\* that symbols do not overwrite each other, and when a second call over the
\* same days has returned, daily_data is what it was after the first.
C10_BackfillIdempotent ==
    dailyFailures = 0 =>
        /\ \A b \in dailyWritten : HasRow(dailyRows, b.date, b.data.symbol)
        /\ (passes = 2 /\ ~incremental /\ dpc = "idle" /\ dailyQueue = <<>>)
              => dailyRows = rowsAfterFirst

\* the weekday of a date is the n-th of its month, or the last one
NthOfMonth(date) == (date.tm_mday - 1) \div 7 + 1
LastOfMonth(date) == date.tm_mday + 7 > DaysInMonth(date.tm_year, date.tm_mon)

\* the U.S. market holidays: New Year's Day, Martin Luther King Jr. Day,
\* Presidents' Day, Memorial Day, Independence Day, Labor Day, Thanksgiving,
\* Christmas
MarketHoliday(date) ==
    \/ date.tm_mon = 0 /\ date.tm_mday = 1
    \/ date.tm_mon = 0 /\ date.tm_wday = 1 /\ NthOfMonth(date) = 3
    \/ date.tm_mon = 1 /\ date.tm_wday = 1 /\ NthOfMonth(date) = 3
    \/ date.tm_mon = 4 /\ date.tm_wday = 1 /\ LastOfMonth(date)
    \/ date.tm_mon = 6 /\ date.tm_mday = 4
    \/ date.tm_mon = 8 /\ date.tm_wday = 1 /\ NthOfMonth(date) = 1
    \/ date.tm_mon = 10 /\ date.tm_wday = 4 /\ NthOfMonth(date) = 4
    \/ date.tm_mon = 11 /\ date.tm_mday = 25

TradingDay(d) ==
    /\ LocalTime(d).tm_wday \in 1..5
    /\ ~MarketHoliday(LocalTime(d))

\* the trading days of the range of SpecCalendar
TradingDays == {d \in CalendarStart..MaxCalendarDay : TradingDay(d)}

\* the days of the requests issued for a symbol, in the order of the requests
DaysRequested(symbol) ==
    LET Of(r) == r.symbol = symbol
        of    == SelectSeq(requests, Of)
    IN  [i \in 1..Len(of) |-> of[i].day]

\* the last day the walk of the i-th symbol has gone past
WalkedTo(i) ==
    IF i < symIdx THEN MaxCalendarDay
    ELSE IF i = symIdx /\ dpc = "day" THEN day - 1
    ELSE CalendarStart - 1

\* C11: the days requested for a symbol are, in ascending order and each
\* once, the days of the range the walk has gone past that are neither a
\* weekend nor a U.S. market holiday; from a Saturday start the first
\* request is the next such day.
C11_WalkRequestsTradingDays ==
    \A i \in 1..Len(Symbols) :
        LET days == DaysRequested(Symbols[i])
        IN  /\ \A m \in 1..(Len(days) - 1) : days[m] < days[m + 1]
            /\ {days[m] : m \in 1..Len(days)} =
                   {d \in TradingDays : d <= WalkedTo(i)}

\* the walk of the first symbol is over: it began on Saturday 2024-01-06
\* with the request of Monday 2024-01-08 and passed over 2024-07-04 between
\* the requests of 2024-07-03 and 2024-07-05
C11_Witness ==
    /\ symIdx = 2
    /\ LocalTime(CalendarStart).tm_wday = 6
    /\ DaysRequested("SPY")[1] = 7
    /\ \E m \in 1..(Len(DaysRequested("SPY")) - 1) :
           /\ DaysRequested("SPY")[m] = 184
           /\ DaysRequested("SPY")[m + 1] = 186
    /\ LocalTime(185) = [tm_year |-> 2024, tm_mon |-> 6, tm_mday |-> 4,
                         tm_wday |-> 4]

\* the dates of the rows daily_data holds for a symbol
StoredDates(symbol) ==
    {dailyRows[q].date :
        q \in {k \in DOMAIN dailyRows : dailyRows[k].data.symbol = symbol}}

RequestsFor(symbol, d) ==
    Cardinality({m \in 1..Len(requests) :
                    requests[m] = [symbol |-> symbol, day |-> d]})

\* C13: a day of a symbol gets at most three requests, and a bar is stored
\* for a day of a symbol only when a request of that day succeeded.
C13_BarsOnlyOfSucceededDays ==
    /\ \A m \in 1..Len(requests) :
           RequestsFor(requests[m].symbol, requests[m].day) <= 3
    /\ \A b \in dailyAccepted :
           [symbol |-> b.data.symbol, day |-> b.date] \in succeeded

\* C19: after stop() has been called the driver issues no request beyond
\* the one it was about to issue, and it never goes through the client that
\* stop() has released.
C19_NoRequestAfterStop ==
    /\ stopAt >= 0 => Len(requests) <= stopAt + 1
    /\ ~crashed

\* min(2^k, 300)
Backoff(k) == IF k >= 9 THEN 300 ELSE Pow2(k)

\* C14: the k-th rate-limit error, counted from 0, sleeps min(2^k, 300)
\* seconds; the delays are positive, never decrease and never exceed 300.
C14_BackoffDelays ==
    /\ \A k \in 1..Len(delays) :
           /\ delays[k] = Backoff(k - 1)
           /\ delays[k] > 0 /\ delays[k] <= 300
    /\ \A k \in 1..(Len(delays) - 1) : delays[k] <= delays[k + 1]

\* C15: after error 1100 has been handled the aggregator is still running:
\* callbacks are still accepted into the buffers and the rollover task has
\* not ended.
C15_RunsAcrossReconnect ==
    reconnecting => running /\ ppc # "done"

\* C16: stop() is never left in joinThreads waiting for a writer that sleeps
\* on queueCV with the flag cleared: the writer is woken, so that stop()
\* returns with its tasks joined.
C16_StopWakesWriter ==
    ~(closing = "join" /\ wpc = "blocked")

\* C17: connectToIB calls eConnect at most maxRetries times; when it has
\* returned true the connection is up and NextValidId has been received;
\* when it has returned false nothing is left: no client, no reader, no
\* signal, no connection.
C17_ConnectContract ==
    /\ eConnects <= connMax
    /\ connPc = "done" /\ connResult = "true" =>
           connClient = "connected" /\ m_nextValidId > 0
    /\ connPc = "done" /\ connResult = "false" =>
           connClient = "null" /\ ~connReader /\ ~connSignal

\* C18: no call of fetchAndProcessDailyData is in progress while the
\* realtime aggregator runs.
C18_BackfillExcludesRealtime ==
    ~(histPc = "fetching" /\ rtPc = "collecting")

\* C20: the daily queue does not reorder: the item the writer takes is the one
\* that was enqueued first.
C20_DailyQueueFifo ==
    [][(dwpc = "drain" /\ dwpc' = "insert") => item' = <<Head(dailyQueue)>>]_vars

\* the entry an event builds, and the last entry of a position
EventPoint(q, status) ==
    L2DataPoint(q[2], q[3], IF q[1] = 0 THEN "Buy" ELSE "Sell", status)

LastStatus(points) == IF points = <<>> THEN "none" ELSE points[Len(points)].status

\* the step is the callback of the event (position, operation, quote)
DepthEvent(pos, op, q) ==
    rawL2Data' = DepthUpdate(rawL2Data, pos, op, q[1], q[2], q[3])

\* C21: an update event replaces the price, the volume and the side of the
\* last entry of its position in place and marks it Updated when that entry
\* is not Deleted; otherwise it appends a new Inserted entry.
C21_UpdateInPlace ==
    [][\A pos \in Positions, q \in L2Quotes :
          DepthEvent(pos, 1, q) =>
             LET old == At(rawL2Data, pos)
                 new == At(rawL2Data', pos)
             IN  IF LastStatus(old) \in {"Inserted", "Updated"}
                 THEN new = [old EXCEPT ![Len(old)] = EventPoint(q, "Updated")]
                 ELSE new = Append(old, EventPoint(q, "Inserted"))]_vars

C23_RolloverPartition ==
    [][/\ (ppc = "move" /\ ppc' = "erase") =>
             \A p \in DOMAIN rawL2Data :
                /\ At(rawL2DataBuffer', p) =
                      At(rawL2DataBuffer, p) \o SelectSeqBy(rawL2Data[p], TRUE)
                /\ SubSeq(rawL2Data'[p], 1, cut'[p].it) =
                      SelectSeqBy(rawL2Data[p], FALSE)
       /\ (ppc = "erase" /\ ppc' # "erase") =>
             /\ ppc' = "aggregate"
             /\ \A p \in DOMAIN rawL2Data :
                   /\ SelectSeqBy(rawL2Data'[p], TRUE) = <<>>
                   /\ p \in DOMAIN cut =>
                         Len(rawL2Data'[p]) =
                            Len(rawL2Data[p]) - (cut[p].size - cut[p].it)]_vars

\* C30: while the processData thread is inside moveDeletedItemsToBuffer, with
\* dataMutex held, no callback changes the live book.
C30_CallbacksUnderDataLock ==
    [][(ppc = "erase" /\ ppc' = "erase") => rawL2Data' = rawL2Data]_vars

\* C24: the writer ends only with running false and the queue empty, every
\* bar accepted until then inserted; and while the writer has not ended, a
\* bar that is accepted when running is false is inserted in the end.
C24_DrainToCompletion ==
    /\ [][(wpc # "done" /\ wpc' = "done") =>
             /\ ~running /\ dataQueue = <<>>
             /\ \A i \in 1..Len(accepted) : InSeq(accepted[i], realtimeRows)]_vars
    /\ \A n \in 1..MaxBars :
          (~running /\ wpc # "done" /\ Len(accepted) >= n)
             ~> (Len(realtimeRows) >= n /\ realtimeRows[n] = accepted[n])

\* the writer has ended after stop(), an insert had failed, and the bars
\* accepted are all in the database
C24_Witness ==
    /\ wpc = "done" /\ ~running
    /\ failures > 0
    /\ Len(accepted) >= 2
    /\ realtimeRows = accepted

\* the symbols of the list
SymbolSet == {Symbols[i] : i \in 1..Len(Symbols)}

\* the bars accepted for a symbol up to a date
AcceptedUpTo(symbol, date) ==
    {b \in dailyAccepted : b.data.symbol = symbol /\ b.date <= date}

\* C25: on a new fetcher every observation of a symbol advances the
\* seen-count of its EMA, and from the observation after the emaPeriod-th on
\* the ema stored with a bar is the running EMA, not the SMA fallback.
C25_EmaWarmUp ==
    /\ \A sym \in SymbolSet :
          indicators[sym].emaDataPoints >= Len(observed[sym])
    /\ \A b \in dailyAccepted :
          Cardinality(AcceptedUpTo(b.data.symbol, b.date)) > emaPeriod =>
             b.data.ema = indicators[b.data.symbol].emaValues
             \/ \E later \in dailyAccepted :
                   later.data.symbol = b.data.symbol /\ later.date > b.date

\* C26: calculateMACD leaves the running EMA, its seen-count and the window
\* of closing prices of the symbol as they are.
C26_MacdSegregated ==
    dpc = "day" =>
        LET sym   == Symbols[symIdx]
            k     == indicators[sym]
            after == calculateMACD(k, CloseOf(sym, day)).k
        IN  /\ after.emaValues = k.emaValues
            /\ after.emaDataPoints = k.emaDataPoints
            /\ after.closingPrices = k.closingPrices

\* C27: on a new fetcher the window of closing prices of a symbol holds one
\* close per observation, maxPeriod at most, in the order observed, and its
\* gains and losses are equally long, rsiPeriod at most.
C27_WindowsBounded ==
    \A sym \in SymbolSet :
        LET k == indicators[sym]
        IN  /\ k.closingPrices = LastN(observed[sym], maxPeriod)
            /\ Len(k.gains) = Len(k.losses)
            /\ Len(k.gains) <= rsiPeriod

\* the day whose bar of the symbol has this close
DayOfClose(sym, close) ==
    CHOOSE d \in 1..(MaxKernelDay + MaxDays) : CloseOf(sym, d) = close

\* C28: the cumulative sums behind the VWAP of a symbol are the sums of
\* close * volume and of volume over the observations of the symbol since the
\* fetcher was created, each counted once.
C28_VwapCumulative ==
    \A sym \in SymbolSet :
        LET closes  == observed[sym]
            volumes == [i \in 1..Len(closes) |->
                           VolumeOf(sym, DayOfClose(sym, closes[i]))]
        IN  /\ indicators[sym].cumulativeVolume = SumSeq(volumes)
            /\ indicators[sym].cumulativePriceVolume =
                  SumSeq([i \in 1..Len(closes) |-> closes[i] * volumes[i]])

\* SpecRing: enough minutes to fill the history rings and evict from them.
\* Each minute has one trade, whose price and size tell the minutes apart;
\* the book keeps its one entry.  Only the first minute can be incomplete.
RingPrice(m) == 100 + m
RingSize(m) == 1 + m

NextRing ==
    \/ Start
    \/ Stop
    \/ ppc = "wait" /\ l1Prices = <<>> /\ tickPrice(RingPrice(minute))
    \/ ppc = "wait" /\ l1Volumes = <<>> /\ tickSize(RingSize(minute))
    \/ ppc = "wait" /\ L2Count(rawL2Data) < 1 /\ updateMktDepth(0, 0, 0, 100, 30)
    \/ /\ minute < MaxRingMinutes
       /\ Incomplete => minute = 0
       /\ ProcessMinute
    \/ ProcessExit
    \/ RolloverStep

SpecRing == Init /\ [][NextRing]_vars

\* the ring after one push of x: x at the end, the elements before it kept
\* in order, the oldest dropped when the ring was full
PushedOne(before, after, x) ==
    /\ after # <<>>
    /\ after[Len(after)] = x
    /\ SubSeq(after, 1, Len(after) - 1) = LastN(before, Len(after) - 1)
    /\ Len(after) = IF Len(before) < MAX_HISTORY_SIZE THEN Len(before) + 1
                    ELSE MAX_HISTORY_SIZE

\* C29: a rollover that reaches the aggregation pushes exactly one element,
\* the close of the frozen minute and the sum of its volumes, into the two
\* history rings, and no other step changes them; the rings are equally long
\* and hold MAX_HISTORY_SIZE elements at most.
C29_HistoricalRing ==
    /\ [](/\ Len(historicalClosePrices) = Len(historicalVolumes)
          /\ Len(historicalClosePrices) <= MAX_HISTORY_SIZE)
    /\ [][IF ppc = "aggregate" /\ ppc' = "finish"
          THEN /\ PushedOne(historicalClosePrices, historicalClosePrices',
                            minuteL1P[Len(minuteL1P)])
               /\ PushedOne(historicalVolumes, historicalVolumes',
                            SumSeq(minuteL1V))
          ELSE /\ historicalClosePrices' = historicalClosePrices
               /\ historicalVolumes' = historicalVolumes]_vars

\* C29 witness: the rings are full, the first complete minutes have been
\* evicted, and the last rollover has just pushed its element
C29_Witness ==
    /\ ppc = "finish"
    /\ Len(historicalClosePrices) = MAX_HISTORY_SIZE
    /\ Len(historicalVolumes) = MAX_HISTORY_SIZE
    /\ minute > MAX_HISTORY_SIZE + 1
    /\ historicalClosePrices[MAX_HISTORY_SIZE] = RingPrice(minute - 1)
    /\ historicalVolumes[MAX_HISTORY_SIZE] = RingSize(minute - 1)
    /\ historicalClosePrices[1] > RingPrice(1)

\* SpecHolidays: the walk of the first symbol begun on any day from
\* 2024-01-02 to 2052-01-01, up to the first day that is requested; in these
\* 28 years every date falls on every weekday
NextHolidays ==
    \/ passes < 1 /\ FetchBegin(FALSE)
    \/ FetchRun
    \/ \E start \in 1..MaxScanDay : symIdx = 1 /\ NextSymbol(start)
    \/ DayHead(MaxScanDay)

SpecHolidays == Init /\ [][NextHolidays]_vars

\* a Saturday, a Sunday or one of the eight holidays of the glossary
ClosedDay(date) == date.tm_wday \in {0, 6} \/ MarketHoliday(date)

\* C33: the walk passes over a day exactly when it is a Saturday, a Sunday,
\* January 1, the 3rd Monday of January or of February, the last Monday of
\* May, July 4, the 1st Monday of September, the 4th Thursday of November or
\* December 25; on every other day it enters the request.
C33_MarketClosedDays ==
    [][(dpc = "day" /\ day <= MaxScanDay) =>
          IF ClosedDay(LocalTime(day))
          THEN day' = day + 1 /\ dpc' = "day"
          ELSE day' = day /\ dpc' = "request"]_vars

\* C33 witness: the walk has passed over Monday 2052-01-01, the last day of
\* the range, and is at the next symbol
C33_Witness ==
    /\ dpc = "symbol" /\ symIdx = 2
    /\ day = 10228
    /\ LocalTime(10227) = [tm_year |-> 2052, tm_mon |-> 0, tm_mday |-> 1,
                           tm_wday |-> 1]
    /\ requests = <<>>

\* C32: at a full hour other than 16:00 the market-open predicate of the
\* supervisor is true exactly from Monday to Friday at 10:00 and later and
\* before 16:00, 09:00 being earlier than the open of 09:30.
C32_MarketOpenHours ==
    LET tm_hour == now % 24
        tm_wday == (5 + now \div 24) % 7
    IN  tm_hour # 16 =>
           (isMarketOpenTime(now) <=>
               (tm_wday \in 1..5 /\ tm_hour >= 10 /\ tm_hour < 16))

\* SpecAck: SpecRequest with a gateway that also reports errors
NextAck ==
    \/ NextRequest
    \/ dailyError

SpecAck == Init /\ [][NextAck]_vars

\* C34: when waitForData returns true for the request of a day, the answer
\* to that request has arrived: the buffer holds the bar of that day of that
\* symbol and no bar left over from another request.
C34_AckOfSameRequest ==
    [][succeeded' # succeeded =>
          /\ historicalDataBuffer # <<>>
          /\ \A i \in 1..Len(historicalDataBuffer) :
                historicalDataBuffer[i] = IBBar(Symbols[symIdx], day)]_vars

\* C35: while the driver is in the loops of a pass the daily writer thread
\* has not ended, and when fetchAndProcessDailyData has returned the queue is
\* empty and every bar enqueued during the pass has been written.
C35_DailyWriterAlive ==
    /\ (dailyRunning /\ dpc \in {"symbol", "day", "request", "wait"})
          => dwpc # "done"
    /\ (dpc = "idle" /\ passes > 0)
          => dailyQueue = <<>> /\ dailyAccepted \subseteq dailyWritten

\* C39: while the L1 aggregation and the features of a bar are computed the
\* frozen price buffer and the frozen volume buffer are equally long, and
\* the weighted average price has read no element past the end of a buffer.
C39_FrozenL1SameLength ==
    /\ ppc \in {"aggregate", "finish"}
          => Len(l1PricesBuffer) = Len(l1VolumesBuffer)
    /\ ppc = "finish" => features.WeightedAvgPrice # OutOfBounds

\* SpecSwap: Spec with a tick that arrives while swapBuffers runs
NextSwap ==
    \/ Next
    \/ \E survives \in BOOLEAN : SwapRace(1, survives)

SpecSwap == Init /\ [][NextSwap]_vars

\* the three frozen buffers
frozenBuffers == <<l1PricesBuffer, l1VolumesBuffer, rawL2DataBuffer>>

\* C40: the frozen buffers are empty when a rollover starts, whatever the
\* end of the rollover before; the swap freezes the live ticks and leaves
\* the live vectors empty, so that no tick is frozen a second time; and no
\* step changes the frozen buffers while the aggregation and the feature
\* tasks run.
C40_DoubleBuffering ==
    /\ [](ppc \in {"wait", "clear", "swap"} =>
             /\ l1PricesBuffer = <<>> /\ l1VolumesBuffer = <<>>
             /\ rawL2DataBuffer = EmptyMap)
    /\ [][(ppc = "swap" /\ ppc' = "move") =>
             /\ l1PricesBuffer' = l1Prices /\ l1Prices' = <<>>
             /\ l1VolumesBuffer' = l1Volumes /\ l1Volumes' = <<>>]_vars
    /\ [][(ppc \in {"aggregate", "finish"} /\ ppc' = ppc) =>
             frozenBuffers' = frozenBuffers]_vars

\* SpecSession: the sessions of an object of either class: connectToIB
\* called by start or fetchAndProcessDailyData on an object at rest, by the
\* connection monitor and by the error callback, and stop()
NextSession ==
    \/ \E class \in {"daily", "realtime"} :
          /\ readerThreads = 0 /\ connClient = "null"
          /\ ConnectCall(class, 3, "start")
    \/ monitorReconnect
    \/ errorReconnect
    \/ \E ok \in BOOLEAN : Attempt(ok)
    \/ nextValidId
    \/ AwaitReturn
    \/ AwaitTimeout
    \/ \E dropped \in BOOLEAN : ConnectDone(dropped)
    \/ ConnStop

SpecSession == Init /\ [][NextSession]_vars

\* C31: a thread that is in eConnect, in a sleep of connectToIB, in the wait
\* for NextValidId or in a database write holds one mutex at most.
C31_OneLockWhileBlocked ==
    /\ Cardinality(heldInConnect) <= 1
    /\ Cardinality(heldInWrite) <= 1

\* C36: connectToIB starts no reader thread while a reader thread it
\* started before has not been joined.
C36_OneReaderThread == readerThreads <= 1

\* SpecStart: calls of start() and stop() of one RealTimeData by the
\* supervisor, with a gateway that accepts or refuses the connection and a
\* try block of start() that may throw
NextStart ==
    \/ StartCall
    \/ StartAgain
    \/ \E ok \in BOOLEAN : Attempt(ok)
    \/ StartConnectFailed
    \/ \E threw \in {"none", "shm", "thread"} : StartInit(threw)
    \/ StartStop
    \/ /\ connPc = "idle" /\ connClient = "connected"
       /\ connClient' = "disconnected"
       /\ UNCHANGED <<connPc, connClass, connMax, attempt, connReader,
                      connSignal, m_nextValidId, connResult, eConnects,
                      sleeps, caller, readerThreads>>
       /\ UNCHANGED connOthers
    \/ running /\ monitorReconnect
    \/ \E dropped \in BOOLEAN : caller = "monitor" /\ ConnectDone(dropped)
    \/ /\ connClient = "connected" /\ readerThreads > 0
       /\ Len(l1Prices) < MaxTicks
       /\ tickPrice(1)
    \/ ProcessExit

SpecStart == Init /\ [][NextStart]_vars

\* C38: when start() has returned false the aggregator is stopped and clean:
\* running is false, the socket is not connected and no reader, rollover or
\* writer thread is left; start() on a running aggregator returns true
\* without a new connection.
C38_StartFailureClean ==
    /\ []((~running /\ connPc = "idle")
             => /\ connClient # "connected"
                /\ readerThreads = 0
                /\ ppc = "off" /\ wpc = "off")
    /\ [][StartAgain => UNCHANGED connVars]_vars

\* SpecTwoStops: one session of the aggregator, stopped by
\* realTimeDataThread and by the main thread at the end of the program
NextTwoStops ==
    \/ teardowns = 0 /\ Start
    \/ Len(l1Prices) < MaxTicks /\ tickPrice(1)
    \/ Len(l1Volumes) < MaxTicks /\ tickSize(1)
    \/ ProcessExit
    \/ WriterLoop
    \/ WriterWait
    \/ WriterBlock
    \/ WriterDrainEnd
    \/ \E t \in StopThreads : StopCheck(t)
    \/ \E t \in StopThreads : StopStore(t)
    \/ \E t \in StopThreads, survives \in BOOLEAN : StopJoin(t, survives)

SpecTwoStops == Init /\ [][NextTwoStops]_vars

\* C37: of the calls of stop() on a running aggregator, one goes past the
\* test of running and performs the teardown; the others return.
C37_OneTeardown == teardowns <= 1

==========================================================================
